---- MODULE Spec2Model ----
(***************************************************************************)
(* Policy Peek: the popup's manual policy analysis (popup script) and its  *)
(* keyword risk scorer.                                                    *)
(*                                                                         *)
(* Strings are TLA+ strings; JavaScript string methods are modelled by     *)
(* operators of the same name that compute what the method computes.       *)
(* riskScore moves in steps of 0.5 in the source, so the model keeps it in *)
(* fixed point: ScoreUnit stands for 1.0 and ScoreUnit \div 2 for 0.5.     *)
(***************************************************************************)
EXTENDS Integers, Sequences, FiniteSets, TLC

VARIABLES
    ai,              \* window.ai: [present, apis], the providers it exposes
    policyText,      \* policyText.value, the textarea content
    analyzeButton,   \* [disabled, textContent] of the Analyze button
    summary,         \* summary.textContent
    keyPoints,       \* the list items rendered into keyPoints.innerHTML
    resultsDisplay,  \* results.style.display
    riskIndicator,   \* [level, description] shown by updateRiskIndicator
    lastAlert,       \* message of the last alert() dialog, "" if none yet
    pc,              \* position of the popup handler that is running
    text,            \* local: the trimmed text under analysis
    summaryText,     \* local of analyzePolicyText
    enhancedSummary, \* local of analyzePolicyText
    riskAnalysis,    \* local of analyzePolicyText: result of analyzeRiskFactors
    calls,           \* awaited calls made by the run in progress, in order
    runs,            \* history: the manual analyses started since the popup opened
    pagePc,          \* position of init / analyzeCurrentPage
    pageCalls,       \* awaited browser calls made by analyzeCurrentPage, in order
    page,            \* the document a content script runs in
    policyData,      \* what detectPolicyContent returned for the page (in the popup: the report on display)
    realTime,        \* what the popup's injected page function returned
    returned,        \* history: the getPageAnalysis requests the background received, with their responses
    tabs,            \* browser: the open tabs and the page each one shows
    timers,          \* background: setTimeout callbacks not yet run
    tasks,           \* background: analyzePageForPolicies invocations in progress
    storage,         \* chrome.storage.local
    badge,           \* chrome.action badge of each tab
    notifications,   \* messages of the notifications created so far
    finished         \* history: the analyzePageForPolicies invocations that ended

manualVars == <<ai, runs, policyText, analyzeButton, summary, keyPoints, resultsDisplay,
                riskIndicator, lastAlert, pc, text, summaryText, enhancedSummary,
                riskAnalysis, calls>>

\* The state of init and analyzeCurrentPage.
autoVars == <<pagePc, pageCalls>>

popupVars == <<manualVars, autoVars>>

pageVars == <<page, policyData, realTime>>

bgVars == <<tabs, timers, tasks, storage, badge, notifications, finished>>

\* Everything the popup's manual analysis does not touch.
outsidePopup == <<autoVars, pageVars, returned, bgVars>>

vars == <<popupVars, pageVars, returned, bgVars>>

(***************************************************************************)
(* JavaScript string primitives                                            *)
(***************************************************************************)
CharAt(s, i) == SubSeq(s, i, i)

UpperChars == "ABCDEFGHIJKLMNOPQRSTUVWXYZ"

LowerChars == "abcdefghijklmnopqrstuvwxyz"

\* Each upper-case letter with its lower-case letter.
LowerOf ==
    [c \in {CharAt(UpperChars, i) : i \in 1..Len(UpperChars)} |->
        CharAt(LowerChars, CHOOSE i \in 1..Len(UpperChars) : CharAt(UpperChars, i) = c)]

toLowerChar(c) == IF c \in DOMAIN LowerOf THEN LowerOf[c] ELSE c

\* Halving keeps the evaluation depth logarithmic in the string length.
RECURSIVE toLowerCase(_)
toLowerCase(s) ==
    IF Len(s) = 0 THEN ""
    ELSE IF Len(s) = 1 THEN toLowerChar(s)
    ELSE LET h == Len(s) \div 2
         IN toLowerCase(SubSeq(s, 1, h)) \o toLowerCase(SubSeq(s, h + 1, Len(s)))

\* String.prototype.includes: needle occurs as a contiguous substring.
includes(s, needle) ==
    \E i \in 1..(Len(s) - Len(needle) + 1) : SubSeq(s, i, i + Len(needle) - 1) = needle

\* The characters matched by \s (and stripped by trim) that the inputs use.
isSpace(c) == c \in {" ", "\t", "\n"}

\* String.prototype.trim: from the first to the last non-whitespace character.
trim(s) ==
    LET solid == {i \in 1..Len(s) : ~isSpace(CharAt(s, i))}
    IN IF solid = {} THEN ""
       ELSE SubSeq(s, CHOOSE i \in solid : \A j \in solid : i <= j,
                      CHOOSE i \in solid : \A j \in solid : j <= i)

\* The k-th smallest element of a set of integers.
kth(S, k) == CHOOSE x \in S : Cardinality({y \in S : y < x}) = k - 1

\* text.split(/\s+/): the pieces between maximal whitespace runs; a run at
\* either end of the string leaves an empty piece there, and "" gives <<"">>.
split(s) ==
    LET runStart == {i \in 1..Len(s) : isSpace(CharAt(s, i)) /\ (i = 1 \/ ~isSpace(CharAt(s, i - 1)))}
        runEnd == {i \in 1..Len(s) : isSpace(CharAt(s, i)) /\ (i = Len(s) \/ ~isSpace(CharAt(s, i + 1)))}
        n == Cardinality(runStart)
    IN [k \in 1..(n + 1) |->
          SubSeq(s, IF k = 1 THEN 1 ELSE kth(runEnd, k - 1) + 1,
                    IF k = n + 1 THEN Len(s) ELSE kth(runStart, k) - 1)]

(***************************************************************************)
(* analyzeRiskFactors                                                      *)
(***************************************************************************)
riskKeywords ==
    << "sell your data", "third parties", "advertising partners", "marketing purposes",
       "indefinitely", "permanent", "irrevocable", "without notice", "at our discretion",
       "no liability", "as is", "no warranty", "indemnify", "hold harmless" >>

positiveKeywords ==
    << "not sell", "not share", "encrypted", "secure", "privacy protection",
       "opt-out", "delete your data", "user control", "transparent" >>

ScoreUnit == 2

\* Mutant of scanKeywords: the list of matches is cut at five, as the page
\* report's lists are.
scanKeywords_capped(t, keywords) ==
    LET lowered == toLowerCase(t)
        found == SelectSeq(keywords, LAMBDA keyword : includes(lowered, toLowerCase(keyword)))
    IN IF Len(found) > 5 THEN SubSeq(found, 1, 5) ELSE found

\* keywords.forEach(keyword => { if (text.toLowerCase().includes(keyword.toLowerCase())) found.push(keyword) })
scanKeywords(t, keywords) ==
    LET lowered == toLowerCase(t)
    IN SelectSeq(keywords, LAMBDA keyword : includes(lowered, toLowerCase(keyword)))

\* Mutant of scoreOf: the score is clamped at zero.
scoreOf_clamped(foundRisks, foundPositives) ==
    LET raw == ScoreUnit * Len(foundRisks) - (ScoreUnit \div 2) * Len(foundPositives)
    IN IF raw < 0 THEN 0 ELSE raw

\* riskScore += 1 per pushed risk keyword, riskScore -= 0.5 per pushed positive keyword.
scoreOf(foundRisks, foundPositives) ==
    ScoreUnit * Len(foundRisks) - (ScoreUnit \div 2) * Len(foundPositives)

DescMultiple == "Multiple risk factors detected. Review carefully before accepting."

DescSome == "Some concerning terms found. Consider the implications."

DescNone == "No major red flags detected. Appears to be standard terms."

\* Mutant of classify: the lower threshold is exclusive (riskScore > 1).
classify_exclusiveOne(riskScore) ==
    IF riskScore >= 3 * ScoreUnit THEN [level |-> "risky", description |-> DescMultiple]
    ELSE IF riskScore > 1 * ScoreUnit THEN [level |-> "risky", description |-> DescSome]
    ELSE [level |-> "safe", description |-> DescNone]

\* Mutant of classify: the upper threshold is exclusive (riskScore > 3).
classify_exclusiveThree(riskScore) ==
    IF riskScore > 3 * ScoreUnit THEN [level |-> "risky", description |-> DescMultiple]
    ELSE IF riskScore >= 1 * ScoreUnit THEN [level |-> "risky", description |-> DescSome]
    ELSE [level |-> "safe", description |-> DescNone]

classify(riskScore) ==
    IF riskScore >= 3 * ScoreUnit THEN [level |-> "risky", description |-> DescMultiple]
    ELSE IF riskScore >= 1 * ScoreUnit THEN [level |-> "risky", description |-> DescSome]
    ELSE [level |-> "safe", description |-> DescNone]

analyzeRiskFactors(t) ==
    LET foundRisks == scanKeywords(t, riskKeywords)
        foundPositives == scanKeywords(t, positiveKeywords)
        riskScore == scoreOf(foundRisks, foundPositives)
        c == classify(riskScore)
    IN [ level |-> c.level, description |-> c.description, riskScore |-> riskScore,
         foundRisks |-> foundRisks, foundPositives |-> foundPositives ]

(***************************************************************************)
(* Inputs                                                                  *)
(***************************************************************************)
Providers == {"summarizer", "writer", "rewriter"}

\* window.ai is undefined, or an object exposing any subset of the providers.
AiConfigs ==
    {[present |-> FALSE, apis |-> {}]} \cup {[present |-> TRUE, apis |-> S] : S \in SUBSET Providers}

ShortText == "We may sell your data."

LongSafe ==
    "This agreement describes how the service works, what you can expect from us, and how to contact support."

LongRisky ==
    " \nWe may sell your data to third parties  without notice.\nThis applies to every account,\tincluding trial accounts, from the first day.  "

LongMixed ==
    "We share data with Third Parties for billing only. All records are ENCRYPTED at rest and in transit, always."

Exact100 ==
    "These terms cover account setup, billing cycles, refunds, and how to reach our help desk at any time"

\* What the user may have in the textarea when clicking Analyze.
ManualTexts ==
    {"", " \n ", ShortText, LongSafe, LongRisky, LongMixed, Exact100, SubSeq(Exact100, 1, 99)}

MinLength == 100

\* The manual analyses followed in one popup session.
MaxRuns == 1

\* Mutant of readInput: the textarea value is taken untrimmed.
readInput_untrimmed(v) == v

\* const text = policyText.value.trim();
readInput(v) == trim(v)

\* The trimmed value of every textarea content, evaluated once.
inputOf == [v \in ManualTexts |-> readInput(v)]

\* The texts the click handler can pass to analyzePolicyText.
AnalyzedTexts == {inputOf[v] : v \in ManualTexts}

S1 == "Key points: data is shared with partners."

S2 == "Risk: data is shared. Benefit: none stated."

S3 == "Heads up: they share your data."

\* What a provider's transform call may resolve to.
CondenseOutputs == {"", S1}

ReframeOutputs == {"", S2}

PolishOutputs == {"", S3}

(***************************************************************************)
(* Provider calls: each call is logged when made and settled later         *)
(***************************************************************************)
AwaitPoints ==
    {"summarizer.create", "summarizer.summarize", "writer.create", "writer.write",
     "rewriter.create", "rewriter.rewrite"}

NewCall(api, input) == [api |-> api, input |-> input, kind |-> "pending", value |-> ""]

\* The awaited promise of the last call settles: kind is "value" or "throw".
Settled(log, kind, value) ==
    [log EXCEPT ![Len(log)] = [@ EXCEPT !.kind = kind, !.value = value]]

AwaitingAt(api) ==
    /\ pc = api
    /\ Len(calls) > 0
    /\ calls[Len(calls)].api = api
    /\ calls[Len(calls)].kind = "pending"

SummarizerOptions == "type=key-points,format=plain-text,length=short"

WriterOptions == "tone=neutral,format=plain-text,length=short"

RewriterOptions == "tone=more-casual,length=shorter"

(***************************************************************************)
(* analyzePolicyText, piece by piece                                       *)
(***************************************************************************)
available(p) == ai.present /\ p \in ai.apis

\* if (window.ai && window.ai.summarizer)
condenseAttempted == available("summarizer")

\* Mutant of reframeAttempted: the summaryText condition is dropped.
reframeAttempted_anySummary(sTxt) == available("writer")

\* if (window.ai && window.ai.writer && summaryText)
reframeAttempted(sTxt) == available("writer") /\ sTxt # ""

\* Mutant of polishAttempted: the enhancedSummary condition is dropped.
polishAttempted_anySummary(eSum) == available("rewriter")

\* if (window.ai && window.ai.rewriter && enhancedSummary)
polishAttempted(eSum) == available("rewriter") /\ eSum # ""

PromptPrefix ==
    "Rewrite this privacy policy summary to highlight key risks and benefits in simple terms: "

\* Mutant of writerPrompt: the summary is left out of the prompt.
writerPrompt_noSummary(sTxt) == PromptPrefix

writerPrompt(sTxt) == PromptPrefix \o sTxt

\* Mutant of writerCatch: a failed writer leaves enhancedSummary empty.
writerCatch_empty(sTxt, eSum) == eSum

\* catch (error) { enhancedSummary = summaryText; }
writerCatch(sTxt, eSum) == sTxt

\* catch (error) { } of the rewriter: enhancedSummary is kept.
rewriterCatch(eSum) == eSum

heuristicSummary(t) ==
    "Policy contains " \o ToString(Len(split(t))) \o " words. Analysis based on risk keyword detection."

\* The generated sentence for every text the click handler can pass on,
\* evaluated once.
heuristicSummaryOf == [t \in AnalyzedTexts |-> heuristicSummary(t)]

\* Mutant of finalSummaryOf: the generated sentence is missing from the chain.
finalSummaryOf_noHeuristic(t, sTxt, eSum) ==
    IF eSum # "" THEN eSum ELSE sTxt

\* enhancedSummary || summaryText || `Policy contains ... words. ...`
finalSummaryOf(t, sTxt, eSum) ==
    IF eSum # "" THEN eSum
    ELSE IF sTxt # "" THEN sTxt
    ELSE heuristicSummaryOf[t]

\* const riskAnalysis = analyzeRiskFactors(text), for every text the click
\* handler can pass on, evaluated once.
riskAnalysisOf == [t \in AnalyzedTexts |-> analyzeRiskFactors(t)]

NoAnalysis ==
    [level |-> "none", description |-> "", riskScore |-> 0, foundRisks |-> << >>, foundPositives |-> << >>]

\* `${riskScore}` of a score kept in halves: 3, 2.5, 0, -0.5, -1.
formatScore(riskScore) ==
    LET a == IF riskScore < 0 THEN 0 - riskScore ELSE riskScore
    IN (IF riskScore < 0 THEN "-" ELSE "") \o ToString(a \div ScoreUnit)
       \o (IF a % ScoreUnit # 0 THEN ".5" ELSE "")

\* The summary sentence and result object built from the word count and the
\* risk analysis.
fallbackResult(wordCount, ra) ==
    [ summary |->
        "Analysis of " \o ToString(wordCount) \o " words completed using keyword detection. "
        \o (IF Len(ra.foundRisks) > 0
            THEN "Found " \o ToString(Len(ra.foundRisks)) \o " potential risk factor(s). "
            ELSE "")
        \o (IF Len(ra.foundPositives) > 0
            THEN "Also identified " \o ToString(Len(ra.foundPositives)) \o " positive privacy aspect(s). "
            ELSE "")
        \o (IF ra.riskScore >= 3 * ScoreUnit
            THEN "High risk score (" \o formatScore(ra.riskScore) \o ") suggests careful review recommended."
            ELSE IF ra.riskScore >= 1 * ScoreUnit
            THEN "Moderate risk score (" \o formatScore(ra.riskScore) \o ") - some concerns identified."
            ELSE "Low risk score (" \o formatScore(ra.riskScore) \o ") - appears to be standard terms."),
      level |-> ra.level, description |-> ra.description, riskScore |-> ra.riskScore,
      foundRisks |-> ra.foundRisks, foundPositives |-> ra.foundPositives ]

performFallbackAnalysis(t) == fallbackResult(Len(split(t)), analyzeRiskFactors(t))

\* performFallbackAnalysis(text) for every text the click handler can pass
\* on, evaluated once.
fallbackAnalysisOf == [t \in AnalyzedTexts |-> performFallbackAnalysis(t)]

\* Mutant of catchOf: the writer stage has no try/catch of its own.
catchOf_writerUnguarded(provider) ==
    IF provider = "writer" THEN "analyzePolicyText" ELSE provider

\* The catch clause that receives a rejection raised inside a provider's
\* stage: each stage sits in its own try/catch, all inside the try/catch of
\* analyzePolicyText.
catchOf(provider) == provider

\* Mutant of Call: the call is made but not awaited, and the function runs on
\* to its end.
Call_notAwaited(log, api, input) ==
    /\ calls' = Append(log, NewCall(api, input))
    /\ pc' = "finally"
    /\ UNCHANGED <<summary, keyPoints, resultsDisplay, riskIndicator, riskAnalysis>>

\* A provider call is made and awaited; nothing is displayed meanwhile.
Call(log, api, input) ==
    /\ calls' = Append(log, NewCall(api, input))
    /\ pc' = api
    /\ UNCHANGED <<summary, keyPoints, resultsDisplay, riskIndicator, riskAnalysis>>

\* Mutant of Finish: the risk analysis reads the summary the providers
\* produced instead of the policy text.
Finish_ofSummary(t, sTxt, eSum, log) ==
    LET ra == analyzeRiskFactors(finalSummaryOf(t, sTxt, eSum))
    IN /\ riskAnalysis' = ra
       /\ summary' = finalSummaryOf(t, sTxt, eSum)
       /\ keyPoints' = [foundRisks |-> ra.foundRisks, foundPositives |-> ra.foundPositives]
       /\ resultsDisplay' = "block"
       /\ riskIndicator' = [level |-> ra.level, description |-> ra.description]
       /\ calls' = log
       /\ pc' = "finally"

\* results.style.display of a popup document that has no element with id
\* 'results': getElementById returned null, and reading results.style throws.
NoElement == "no element"

\* catch (error) of analyzePolicyText: performFallbackAnalysis,
\* displayAnalysisResults, updateRiskIndicator; then return to the click
\* handler. displayAnalysisResults writes the summary and the key points
\* and then throws at results.style when results is null: nothing catches
\* that here, and analyzePolicyText rejects into the catch of the click
\* handler.
CatchAll(t) ==
    LET fa == fallbackAnalysisOf[t]
    IN /\ summary' = fa.summary
       /\ keyPoints' = [foundRisks |-> fa.foundRisks, foundPositives |-> fa.foundPositives]
       /\ IF resultsDisplay # NoElement
          THEN /\ resultsDisplay' = "block"
               /\ riskIndicator' = [level |-> fa.level, description |-> fa.description]
               /\ pc' = "finally"
          ELSE /\ pc' = "catch"
               /\ UNCHANGED <<resultsDisplay, riskIndicator>>

\* analyzeRiskFactors, displayAnalysisResults, updateRiskIndicator; then
\* analyzePolicyText returns to the click handler. When
\* displayAnalysisResults throws (results is null), the catch of
\* analyzePolicyText takes over and writes over the summary and key points
\* just written.
Finish(t, sTxt, eSum, log) ==
    LET ra == riskAnalysisOf[t]
    IN /\ riskAnalysis' = ra
       /\ calls' = log
       /\ IF resultsDisplay # NoElement
          THEN /\ summary' = finalSummaryOf(t, sTxt, eSum)
               /\ keyPoints' = [foundRisks |-> ra.foundRisks, foundPositives |-> ra.foundPositives]
               /\ resultsDisplay' = "block"
               /\ riskIndicator' = [level |-> ra.level, description |-> ra.description]
               /\ pc' = "finally"
          ELSE CatchAll(t)

\* A rejection that no stage caught reaches the catch of analyzePolicyText.
FallbackFinish(t, log) ==
    /\ CatchAll(t)
    /\ calls' = log
    /\ UNCHANGED riskAnalysis

PolishStage(t, sTxt, eSum, log) ==
    IF polishAttempted(eSum)
    THEN Call(log, "rewriter.create", RewriterOptions)
    ELSE Finish(t, sTxt, eSum, log)

ReframeStage(t, sTxt, eSum, log) ==
    IF reframeAttempted(sTxt)
    THEN Call(log, "writer.create", WriterOptions)
    ELSE PolishStage(t, sTxt, eSum, log)

CondenseStage(t, log) ==
    IF condenseAttempted
    THEN Call(log, "summarizer.create", SummarizerOptions)
    ELSE ReframeStage(t, "", "", log)

(***************************************************************************)
(* The state outside the popup's manual analysis, before anything ran      *)
(***************************************************************************)
\* A missing attribute or storage item reads as null; a present one as its
\* value.
Null == << >>

Some(v) == <<v>>

\* A document: the rendered text of its body, its anchor elements in
\* document order, and the positions of the anchors holding an indicator.
Document(innerText, anchors) ==
    [innerText |-> innerText, anchors |-> anchors, marked |-> {},
     hostname |-> "shop.example", url |-> "https://shop.example/"]

NoReport ==
    [completed |-> FALSE, hasPolicyContent |-> FALSE, hasRiskyKeywords |-> FALSE,
     foundPolicyLinks |-> << >>, foundRiskyTerms |-> << >>, hostname |-> "", url |-> ""]

NoScan ==
    [completed |-> FALSE, hasPolicyContent |-> FALSE, hasRiskyKeywords |-> FALSE, hostname |-> ""]

PageIdle ==
    /\ page = Document("", << >>)
    /\ policyData = NoReport
    /\ realTime = NoScan

TabIds == {1, 2}

\* `analysis_${tabId}`
analysisKey(tabId) == "analysis_" \o ToString(tabId)

StorageKeys == {analysisKey(t) : t \in TabIds} \cup {"autoOpenEnabled"}

\* No tab under this id; loads counts the page loads the id has seen.
NoTab ==
    [open |-> FALSE, url |-> "", content |-> Document("", << >>), status |-> "", loads |-> 0]

NoBadge == [text |-> "", color |-> ""]

BackgroundIdle ==
    /\ tabs = [t \in TabIds |-> NoTab]
    /\ timers = {}
    /\ tasks = {}
    /\ storage = [k \in StorageKeys |-> Null]
    /\ badge = [t \in TabIds |-> NoBadge]
    /\ notifications = {}
    /\ finished = {}

\* The popup page with nothing typed, clicked or displayed.
PopupSettled ==
    /\ ai = [present |-> FALSE, apis |-> {}]
    /\ runs = 0
    /\ policyText = ""
    /\ analyzeButton = [disabled |-> FALSE, textContent |-> "Analyze Policy"]
    /\ summary = ""
    /\ keyPoints = [foundRisks |-> << >>, foundPositives |-> << >>]
    /\ resultsDisplay = "none"
    /\ riskIndicator = [level |-> "none", description |-> ""]
    /\ lastAlert = ""
    /\ text = ""
    /\ summaryText = ""
    /\ enhancedSummary = ""
    /\ riskAnalysis = NoAnalysis
    /\ calls = << >>

\* No popup is open.
PopupIdle ==
    /\ PopupSettled
    /\ pagePc = "closed"
    /\ pageCalls = << >>

(***************************************************************************)
(* The popup after DOMContentLoaded                                        *)
(***************************************************************************)
IdleLocals ==
    /\ text = ""
    /\ summaryText = ""
    /\ enhancedSummary = ""
    /\ riskAnalysis = NoAnalysis
    /\ calls = << >>

\* The browser dispatches a task (a user event, the settling of an awaited
\* browser or provider call) only once the continuations already due have
\* run: init resumes from await checkAIAvailability() and the click handler
\* from await analyzePolicyText(text) as microtasks of the task before.
NoMicrotaskPending == pc \notin {"finally", "catch"} /\ pagePc # "init"

\* The user edits the textarea: no handler listens to it and it stays
\* editable during a run, which read policyText.value at the click.
SetText(v) ==
    /\ NoMicrotaskPending
    /\ policyText' = v
    /\ UNCHANGED <<ai, runs, analyzeButton, summary, keyPoints, resultsDisplay, riskIndicator,
                   lastAlert, pc, text, summaryText, enhancedSummary, riskAnalysis, calls>>
    /\ UNCHANGED outsidePopup

AlertEmpty == "Please paste some policy text to analyze"

AlertShort == "Please provide more text for a meaningful analysis (at least 100 characters)"

\* analyzeButton click: validation fails, alert and return. The browser
\* delivers a click only to a button that is not disabled.
ClickRejected ==
    /\ ~analyzeButton.disabled
    /\ NoMicrotaskPending
    /\ LET t == inputOf[policyText]
       IN /\ (t = "" \/ Len(t) < MinLength)
          /\ lastAlert' = IF t = "" THEN AlertEmpty ELSE AlertShort
    /\ UNCHANGED <<ai, runs, policyText, analyzeButton, summary, keyPoints, resultsDisplay,
                   riskIndicator, pc, text, summaryText, enhancedSummary, riskAnalysis, calls>>
    /\ UNCHANGED outsidePopup

\* Mutant of ClickAnalyze: the handler leaves the button enabled.
ClickAnalyze_buttonLeftEnabled ==
    /\ ~analyzeButton.disabled
    /\ NoMicrotaskPending
    /\ runs' = runs + 1
    /\ LET t == inputOf[policyText]
       IN /\ t # ""
          /\ Len(t) >= MinLength
          /\ text' = t
          /\ summaryText' = ""
          /\ enhancedSummary' = ""
          /\ CondenseStage(t, << >>)
    /\ UNCHANGED <<ai, policyText, lastAlert, analyzeButton>>
    /\ UNCHANGED outsidePopup

\* analyzeButton click: validation passes, the button is disabled and
\* analyzePolicyText runs up to its first await (or to its end).
ClickAnalyze ==
    /\ ~analyzeButton.disabled
    /\ NoMicrotaskPending
    /\ runs' = runs + 1
    /\ LET t == inputOf[policyText]
       IN /\ t # ""
          /\ Len(t) >= MinLength
          /\ analyzeButton' = [disabled |-> TRUE, textContent |-> "Analyzing..."]
          /\ text' = t
          /\ summaryText' = ""
          /\ enhancedSummary' = ""
          /\ CondenseStage(t, << >>)
    /\ UNCHANGED <<ai, policyText, lastAlert>>
    /\ UNCHANGED outsidePopup

\* A rejection inside the summarizer stage: caught, summaryText stays ''.
SummarizerCaught(log) ==
    /\ IF catchOf("summarizer") = "summarizer"
       THEN ReframeStage(text, "", "", log)
       ELSE FallbackFinish(text, log)
    /\ UNCHANGED <<summaryText, enhancedSummary>>

\* A rejection inside the writer stage: caught, enhancedSummary = summaryText.
WriterCaught(log) ==
    IF catchOf("writer") = "writer"
    THEN LET e == writerCatch(summaryText, enhancedSummary)
         IN /\ enhancedSummary' = e
            /\ PolishStage(text, summaryText, e, log)
            /\ UNCHANGED summaryText
    ELSE /\ FallbackFinish(text, log)
         /\ UNCHANGED <<summaryText, enhancedSummary>>

\* A rejection inside the rewriter stage: caught, enhancedSummary is kept.
RewriterCaught(log) ==
    IF catchOf("rewriter") = "rewriter"
    THEN LET e == rewriterCatch(enhancedSummary)
         IN /\ enhancedSummary' = e
            /\ Finish(text, summaryText, e, log)
            /\ UNCHANGED summaryText
    ELSE /\ FallbackFinish(text, log)
         /\ UNCHANGED <<summaryText, enhancedSummary>>

\* await window.ai.summarizer.create(...) settles.
SummarizerCreateSettled(ok) ==
    /\ AwaitingAt("summarizer.create")
    /\ IF ok
       THEN /\ Call(Settled(calls, "value", "summarizer"), "summarizer.summarize", text)
            /\ UNCHANGED <<summaryText, enhancedSummary>>
       ELSE SummarizerCaught(Settled(calls, "throw", ""))
    /\ UNCHANGED <<ai, runs, policyText, analyzeButton, lastAlert, text>>
    /\ UNCHANGED outsidePopup

\* await summarizer.summarize(text) resolves with v.
SummarizeResolved(v) ==
    /\ AwaitingAt("summarizer.summarize")
    /\ summaryText' = v
    /\ ReframeStage(text, v, "", Settled(calls, "value", v))
    /\ UNCHANGED <<ai, runs, policyText, analyzeButton, lastAlert, text, enhancedSummary>>
    /\ UNCHANGED outsidePopup

\* await summarizer.summarize(text) rejects.
SummarizeRejected ==
    /\ AwaitingAt("summarizer.summarize")
    /\ SummarizerCaught(Settled(calls, "throw", ""))
    /\ UNCHANGED <<ai, runs, policyText, analyzeButton, lastAlert, text>>
    /\ UNCHANGED outsidePopup

\* await window.ai.writer.create(...) settles.
WriterCreateSettled(ok) ==
    /\ AwaitingAt("writer.create")
    /\ IF ok
       THEN /\ Call(Settled(calls, "value", "writer"), "writer.write", writerPrompt(summaryText))
            /\ UNCHANGED <<summaryText, enhancedSummary>>
       ELSE WriterCaught(Settled(calls, "throw", ""))
    /\ UNCHANGED <<ai, runs, policyText, analyzeButton, lastAlert, text>>
    /\ UNCHANGED outsidePopup

\* await writer.write(prompt) resolves with v.
WriteResolved(v) ==
    /\ AwaitingAt("writer.write")
    /\ enhancedSummary' = v
    /\ PolishStage(text, summaryText, v, Settled(calls, "value", v))
    /\ UNCHANGED <<ai, runs, policyText, analyzeButton, lastAlert, text, summaryText>>
    /\ UNCHANGED outsidePopup

\* await writer.write(prompt) rejects.
WriteRejected ==
    /\ AwaitingAt("writer.write")
    /\ WriterCaught(Settled(calls, "throw", ""))
    /\ UNCHANGED <<ai, runs, policyText, analyzeButton, lastAlert, text>>
    /\ UNCHANGED outsidePopup

\* await window.ai.rewriter.create(...) settles.
RewriterCreateSettled(ok) ==
    /\ AwaitingAt("rewriter.create")
    /\ IF ok
       THEN /\ Call(Settled(calls, "value", "rewriter"), "rewriter.rewrite", enhancedSummary)
            /\ UNCHANGED <<summaryText, enhancedSummary>>
       ELSE RewriterCaught(Settled(calls, "throw", ""))
    /\ UNCHANGED <<ai, runs, policyText, analyzeButton, lastAlert, text>>
    /\ UNCHANGED outsidePopup

\* await rewriter.rewrite(enhancedSummary) resolves with v.
RewriteResolved(v) ==
    /\ AwaitingAt("rewriter.rewrite")
    /\ enhancedSummary' = v
    /\ Finish(text, summaryText, v, Settled(calls, "value", v))
    /\ UNCHANGED <<ai, runs, policyText, analyzeButton, lastAlert, text, summaryText>>
    /\ UNCHANGED outsidePopup

\* await rewriter.rewrite(enhancedSummary) rejects.
RewriteRejected ==
    /\ AwaitingAt("rewriter.rewrite")
    /\ RewriterCaught(Settled(calls, "throw", ""))
    /\ UNCHANGED <<ai, runs, policyText, analyzeButton, lastAlert, text>>
    /\ UNCHANGED outsidePopup

\* The awaited provider promise never settles: no timeout wraps the await,
\* so the handler stays suspended at it.
Hang ==
    /\ pc \in AwaitPoints
    /\ AwaitingAt(pc)
    /\ calls' = Settled(calls, "never", "")
    /\ UNCHANGED <<ai, runs, policyText, analyzeButton, summary, keyPoints, resultsDisplay,
                   riskIndicator, lastAlert, pc, text, summaryText, enhancedSummary,
                   riskAnalysis>>
    /\ UNCHANGED outsidePopup

\* showError(message): updateRiskIndicator('risky', message).
showError(message) == [level |-> "risky", description |-> message]

\* The click handler resumes from await analyzePolicyText(text). When that
\* rejected: catch (error) { showError('Failed to analyze policy text'); }.
\* In either case:
\* finally { analyzeButton.disabled = false; analyzeButton.textContent = 'Analyze Policy'; }
Finally ==
    /\ pc \in {"finally", "catch"}
    /\ riskIndicator' = IF pc = "catch" THEN showError("Failed to analyze policy text")
                                        ELSE riskIndicator
    /\ analyzeButton' = [disabled |-> FALSE, textContent |-> "Analyze Policy"]
    /\ pc' = "idle"
    /\ text' = ""
    /\ summaryText' = ""
    /\ enhancedSummary' = ""
    /\ riskAnalysis' = NoAnalysis
    /\ calls' = << >>
    /\ UNCHANGED <<ai, runs, policyText, summary, keyPoints, resultsDisplay, lastAlert>>
    /\ UNCHANGED outsidePopup

Resume ==
    \/ \E ok \in BOOLEAN : SummarizerCreateSettled(ok)
    \/ \E v \in CondenseOutputs : SummarizeResolved(v)
    \/ SummarizeRejected
    \/ \E ok \in BOOLEAN : WriterCreateSettled(ok)
    \/ \E v \in ReframeOutputs : WriteResolved(v)
    \/ WriteRejected
    \/ \E ok \in BOOLEAN : RewriterCreateSettled(ok)
    \/ \E v \in PolishOutputs : RewriteResolved(v)
    \/ RewriteRejected

(***************************************************************************)
(* analyzeRiskFactors as a function: texts built from known phrases        *)
(***************************************************************************)
MaxPhrases == 4

\* Clauses a policy may contain, with the keywords each one holds.
PhrasePool ==
    << [clause |-> "we may sell your data", risks |-> {"sell your data"}, positives |-> {}],
       [clause |-> "shared with Third Parties", risks |-> {"third parties"}, positives |-> {}],
       [clause |-> "changed WITHOUT NOTICE", risks |-> {"without notice"}, positives |-> {}],
       [clause |-> "you hold harmless the provider", risks |-> {"hold harmless"}, positives |-> {}],
       [clause |-> "data is Encrypted", risks |-> {}, positives |-> {"encrypted"}],
       [clause |-> "you can Opt-Out", risks |-> {}, positives |-> {"opt-out"}],
       [clause |-> "we do not sell your data", risks |-> {"sell your data"}, positives |-> {"not sell"}],
       [clause |-> "kept Indefinitely and used for marketing purposes by advertising partners at our discretion",
        risks |-> {"indefinitely", "marketing purposes", "advertising partners", "at our discretion"},
        positives |-> {}] >>

Samples == {P \in SUBSET (1..Len(PhrasePool)) : Cardinality(P) <= MaxPhrases}

RECURSIVE JoinClauses(_, _)
JoinClauses(P, i) ==
    IF i > Len(PhrasePool) THEN ""
    ELSE (IF i \in P THEN PhrasePool[i].clause \o "; " ELSE "") \o JoinClauses(P, i + 1)

RiskText(P) == "Our terms state: " \o JoinClauses(P, 1)

RiskTexts == {RiskText(P) : P \in Samples}

InitRisk ==
    /\ ai = [present |-> FALSE, apis |-> {}]
    /\ runs = 0
    /\ policyText = ""
    /\ analyzeButton = [disabled |-> FALSE, textContent |-> "Analyze Policy"]
    /\ summary = ""
    /\ keyPoints = [foundRisks |-> << >>, foundPositives |-> << >>]
    /\ resultsDisplay = "none"
    /\ riskIndicator = [level |-> "none", description |-> ""]
    /\ lastAlert = ""
    /\ pc = "risk.call"
    /\ text \in RiskTexts
    /\ summaryText = ""
    /\ enhancedSummary = ""
    /\ riskAnalysis = NoAnalysis
    /\ calls = << >>
    /\ pagePc = "closed"
    /\ pageCalls = << >>
    /\ PageIdle
    /\ returned = {}
    /\ BackgroundIdle

\* riskAnalysis = analyzeRiskFactors(text)
AssessRisk ==
    /\ pc = "risk.call"
    /\ riskAnalysis' = analyzeRiskFactors(text)
    /\ pc' = "risk.done"
    /\ UNCHANGED <<ai, runs, policyText, analyzeButton, summary, keyPoints, resultsDisplay,
                   riskIndicator, lastAlert, text, summaryText, enhancedSummary, calls>>
    /\ UNCHANGED outsidePopup

NextRisk == AssessRisk

SpecRisk == InitRisk /\ [][NextRisk]_vars

(***************************************************************************)
(* detectPolicyContent: the content script of the background page scan     *)
(***************************************************************************)
policyKeywords ==
    << "privacy policy", "terms of service", "terms and conditions",
       "cookie policy", "cookies policy", "data protection", "user agreement",
       "privacy notice", "terms of use", "legal notice", "gdpr", "ccpa",
       "cookie notice", "cookie consent", "privacy statement", "legal terms",
       "acceptable use", "end user license", "eula", "terms & conditions", "terms",
       "data policy", "cookie user", "cookie settings", "privacy settings",
       "manage cookies", "cookie preferences", "privacy center", "legal",
       "privacy rights", "data use policy", "cookie information", "cookie details",
       "privacy information", "cookie banner", "terms of use policy" >>

riskyKeywords ==
    << "sell your data", "third parties", "advertising partners",
       "indefinitely", "without notice", "at our discretion",
       "no liability", "as is", "no warranty" >>

\* slice(0, 5)
MaxReported == 5

\* indicator.textContent: stands for the warning-sign emoji, two characters
\* that are neither word characters nor whitespace.
IndicatorText == "(!)"

startsWith(s, prefix) ==
    Len(prefix) <= Len(s) /\ SubSeq(s, 1, Len(prefix)) = prefix

endsWith(s, suffix) ==
    Len(suffix) <= Len(s) /\ SubSeq(s, Len(s) - Len(suffix) + 1, Len(s)) = suffix

WordChars == "abcdefghijklmnopqrstuvwxyzABCDEFGHIJKLMNOPQRSTUVWXYZ0123456789_"

\* The characters matched by \w.
WordCharSet == {CharAt(WordChars, i) : i \in 1..Len(WordChars)}

\* s.replace(/[^\w\s]/g, '')
RECURSIVE stripPunctuation(_)
stripPunctuation(s) ==
    IF Len(s) = 0 THEN ""
    ELSE IF Len(s) = 1 THEN (IF s \in WordCharSet \/ isSpace(s) THEN s ELSE "")
    ELSE stripPunctuation(SubSeq(s, 1, Len(s) \div 2))
         \o stripPunctuation(SubSeq(s, Len(s) \div 2 + 1, Len(s)))

RECURSIVE join(_, _, _)
join(pieces, sep, k) ==
    IF k > Len(pieces) THEN ""
    ELSE (IF k > 1 THEN sep ELSE "") \o pieces[k] \o join(pieces, sep, k + 1)

\* s.replace(/\s+/g, sep): every maximal whitespace run becomes sep.
replaceSpaces(s, sep) == join(split(s), sep, 1)

\* Mutant of slice: the list is returned whole.
slice_whole(list, n) == list

\* Array.prototype.slice(0, n)
slice(list, n) == SubSeq(list, 1, IF Len(list) < n THEN Len(list) ELSE n)

\* link.textContent: the anchor's own text, followed by the text of the
\* indicator span once one has been appended to it.
textContent(el, hasIndicator) ==
    el.text \o (IF hasIndicator THEN IndicatorText ELSE "")

\* Mutant of attributeOrEmpty: the `|| ''` default is missing.
attributeOrEmpty_unguarded(m) == m

\* link.getAttribute(name) || ''
attributeOrEmpty(m) == IF m = Null \/ m = Some("") THEN Some("") ELSE m

\* Calling toLowerCase on null throws a TypeError.
throwsOn(m) == m = Null

lowerOf(m) == IF m = Null THEN "" ELSE toLowerCase(m[1])

\* Mutant of isMatch: the title attribute is not looked at.
isMatch_noTitle(linkText, href, ariaLabel, title, keywordLower) ==
    \/ includes(linkText, keywordLower)
    \/ includes(href, replaceSpaces(keywordLower, ""))
    \/ includes(href, replaceSpaces(keywordLower, "-"))
    \/ includes(href, replaceSpaces(keywordLower, "_"))
    \/ includes(ariaLabel, keywordLower)
    \/ includes(stripPunctuation(linkText), keywordLower)
    \/ startsWith(linkText, keywordLower)
    \/ endsWith(linkText, keywordLower)

\* The nine sources checked for one link and one keyword.
isMatch(linkText, href, ariaLabel, title, keywordLower) ==
    \/ includes(linkText, keywordLower)
    \/ includes(href, replaceSpaces(keywordLower, ""))
    \/ includes(href, replaceSpaces(keywordLower, "-"))
    \/ includes(href, replaceSpaces(keywordLower, "_"))
    \/ includes(ariaLabel, keywordLower)
    \/ includes(title, keywordLower)
    \/ includes(stripPunctuation(linkText), keywordLower)
    \/ startsWith(linkText, keywordLower)
    \/ endsWith(linkText, keywordLower)

\* The policy keywords one link matches, in the order of the list, from the
\* four strings read at the start of the link's iteration.
matchedKeywords(linkText, href, ariaLabel, title) ==
    SelectSeq(policyKeywords,
              LAMBDA keyword : isMatch(linkText, href, ariaLabel, title, toLowerCase(keyword)))

\* The start of one links.forEach iteration: linkText, href, ariaLabel and
\* title are read and lowered, which throws if one of them is null.
linkScan(el, hasIndicator) ==
    IF throwsOn(attributeOrEmpty(el.ariaLabel)) \/ throwsOn(attributeOrEmpty(el.title))
    THEN [threw |-> TRUE, matched |-> << >>]
    ELSE [threw |-> FALSE,
          matched |-> matchedKeywords(trim(toLowerCase(textContent(el, hasIndicator))),
                                      lowerOf(el.href),
                                      lowerOf(attributeOrEmpty(el.ariaLabel)),
                                      lowerOf(attributeOrEmpty(el.title)))]

\* foundPolicyLinks.some(existing => existing.href === link.href && existing.text === link.textContent.trim())
alreadyExists(found, href, linkTextNow) ==
    \E k \in DOMAIN found : found[k].href = href /\ found[k].text = linkTextNow

\* addPolicyLinkIndicator: nothing is added when the link or anything under
\* its parent element already holds an indicator.
addPolicyLinkIndicator(doc, marked, i) ==
    IF i \in marked \/ (\E j \in marked : doc.anchors[j].parent = doc.anchors[i].parent)
    THEN marked
    ELSE marked \cup {i}

\* The body of `if (isMatch)`: the entry is built from the link as it is now.
onMatch(doc, i, st, linkTextNow) ==
    IF alreadyExists(st.found, doc.anchors[i].href[1], linkTextNow)
    THEN st
    ELSE [found |-> Append(st.found, [text |-> linkTextNow, href |-> doc.anchors[i].href[1]]),
          marked |-> addPolicyLinkIndicator(doc, st.marked, i),
          threw |-> FALSE]

\* policyKeywords.forEach inside one link's iteration: the keywords that
\* do not match the link change nothing, the others are taken in order.
RECURSIVE forEachKeyword(_, _, _, _, _)
forEachKeyword(doc, i, matched, st, n) ==
    IF n > Len(matched) THEN st
    ELSE forEachKeyword(doc, i, matched,
            onMatch(doc, i, st, trim(textContent(doc.anchors[i], i \in st.marked))),
            n + 1)

(***************************************************************************)
(* Pages                                                                   *)
(***************************************************************************)
MaxLinks == 6

\* Anchor elements a page may hold: own text, resolved href (Null without an
\* href attribute), aria-label and title attributes, and the parent element.
\* matches says whether one of the nine conditions holds for some phrase.
AnchorPool ==
    << [el |-> [text |-> "Privacy Policy", href |-> Some("https://shop.example/p1"),
                ariaLabel |-> Null, title |-> Null, parent |-> 1],
        matches |-> TRUE],
       [el |-> [text |-> "Terms of Service", href |-> Some("https://shop.example/p2"),
                ariaLabel |-> Null, title |-> Null, parent |-> 1],
        matches |-> TRUE],
       [el |-> [text |-> "Read more", href |-> Some("https://shop.example/Cookie-Policy"),
                ariaLabel |-> Null, title |-> Null, parent |-> 2],
        matches |-> TRUE],
       [el |-> [text |-> "Details", href |-> Some("https://shop.example/data_protection"),
                ariaLabel |-> Null, title |-> Null, parent |-> 2],
        matches |-> TRUE],
       [el |-> [text |-> "About", href |-> Some("https://shop.example/useragreement"),
                ariaLabel |-> Null, title |-> Null, parent |-> 2],
        matches |-> TRUE],
       [el |-> [text |-> "", href |-> Some("https://shop.example/p6"),
                ariaLabel |-> Some("Cookie Settings"), title |-> Null, parent |-> 3],
        matches |-> TRUE],
       [el |-> [text |-> "Help", href |-> Some("https://shop.example/p7"),
                ariaLabel |-> Null, title |-> Some("Legal Notice"), parent |-> 3],
        matches |-> TRUE],
       [el |-> [text |-> "Cookie's Policy", href |-> Some("https://shop.example/p8"),
                ariaLabel |-> Null, title |-> Null, parent |-> 3],
        matches |-> TRUE],
       [el |-> [text |-> "Contact us", href |-> Some("https://shop.example/contact"),
                ariaLabel |-> Null, title |-> Null, parent |-> 4],
        matches |-> FALSE],
       [el |-> [text |-> "Privacy Policy", href |-> Null,
                ariaLabel |-> Null, title |-> Null, parent |-> 4],
        matches |-> TRUE],
       [el |-> [text |-> "  Privacy Policy \n", href |-> Some("https://shop.example/p1"),
                ariaLabel |-> Null, title |-> Null, parent |-> 5],
        matches |-> TRUE],
       [el |-> [text |-> "Store", href |-> Some("https://shop.example/store"),
                ariaLabel |-> Some(""), title |-> Some(""), parent |-> 5],
        matches |-> FALSE] >>

PoolElements == {AnchorPool[n].el : n \in DOMAIN AnchorPool}

\* linkScan of every anchor, with and without an indicator, evaluated once.
linkScanOf == [el \in PoolElements |-> [b \in BOOLEAN |-> linkScan(el, b)]]

PlainText == "Welcome to our shop. Browse the catalogue and enjoy free delivery."

PolicyText ==
    "By using this site you accept our Privacy Policy. We never act Without Notice, and we keep logs indefinitely."

AllRiskyText ==
    "Provided with no warranty, as is, with no liability; changed at our discretion, without notice; kept indefinitely; shared with advertising partners and third parties; we may sell your data."

PageTexts == {PlainText, PolicyText, AllRiskyText}

\* The anchors with the given pool numbers, in ascending or descending order.
RECURSIVE anchorsOf(_, _, _)
anchorsOf(P, n, ascending) ==
    IF n > Len(AnchorPool) THEN << >>
    ELSE IF n \notin P THEN anchorsOf(P, n + 1, ascending)
    ELSE IF ascending THEN <<AnchorPool[n].el>> \o anchorsOf(P, n + 1, ascending)
    ELSE anchorsOf(P, n + 1, ascending) \o <<AnchorPool[n].el>>

\* The pages a tab may show, before any content script has run in them.
Pages ==
    {Document(t, anchorsOf(P, 1, asc)) :
        t \in PageTexts, asc \in BOOLEAN,
        P \in {Q \in SUBSET DOMAIN AnchorPool : Cardinality(Q) <= MaxLinks}}

\* Mutant of textScan: a risky keyword is listed without the flag being set.
textScan_flagNotSet(pageText) ==
    [hasPolicyContent |->
        \E k \in DOMAIN policyKeywords : includes(pageText, toLowerCase(policyKeywords[k])),
     hasRiskyKeywords |-> FALSE,
     foundRiskyTerms |->
        SelectSeq(riskyKeywords, LAMBDA keyword : includes(pageText, toLowerCase(keyword)))]

\* The page-text part of detectPolicyContent, on the lowered page text.
textScan(pageText) ==
    [hasPolicyContent |->
        \E k \in DOMAIN policyKeywords : includes(pageText, toLowerCase(policyKeywords[k])),
     hasRiskyKeywords |->
        \E k \in DOMAIN riskyKeywords : includes(pageText, toLowerCase(riskyKeywords[k])),
     foundRiskyTerms |->
        SelectSeq(riskyKeywords, LAMBDA keyword : includes(pageText, toLowerCase(keyword)))]

NoticeText == "Please read our Privacy Policy and our Terms of Service before you order."

RetentionText == "Backups of your account are kept indefinitely."

\* Every text a document body may render.
ScanTexts == PageTexts \cup RiskTexts \cup {RetentionText, NoticeText}

\* textScan of every page text, evaluated once.
textScanOf == [t \in ScanTexts |-> textScan(toLowerCase(t))]

\* document.querySelectorAll('a[href]'): the positions of the anchors that
\* have an href attribute, in document order.
RECURSIVE querySelectorAll(_, _)
querySelectorAll(doc, i) ==
    IF i > Len(doc.anchors) THEN << >>
    ELSE (IF doc.anchors[i].href # Null THEN <<i>> ELSE << >>) \o querySelectorAll(doc, i + 1)

\* links.forEach: an exception ends the whole function.
RECURSIVE forEachLink(_, _, _, _)
forEachLink(doc, links, st, n) ==
    IF n > Len(links) \/ st.threw THEN st
    ELSE forEachLink(doc, links,
            IF linkScanOf[doc.anchors[links[n]]][links[n] \in st.marked].threw
            THEN [st EXCEPT !.threw = TRUE]
            ELSE forEachKeyword(doc, links[n],
                                linkScanOf[doc.anchors[links[n]]][links[n] \in st.marked].matched,
                                st, 1),
            n + 1)

scanLinks(doc) ==
    forEachLink(doc, querySelectorAll(doc, 1),
                [found |-> << >>, marked |-> doc.marked, threw |-> FALSE], 1)

\* The object detectPolicyContent returns; nothing is returned when the link
\* scan threw.
reportOf(doc, ts, ls) ==
    IF ls.threw THEN NoReport
    ELSE [completed |-> TRUE,
          hasPolicyContent |-> ts.hasPolicyContent,
          hasRiskyKeywords |-> ts.hasRiskyKeywords,
          foundPolicyLinks |-> slice(ls.found, MaxReported),
          foundRiskyTerms |-> slice(ts.foundRiskyTerms, MaxReported),
          hostname |-> doc.hostname,
          url |-> doc.url]

\* The report, and the indicators the document holds afterwards.
outcomeOf(doc, ts, ls) ==
    [report |-> reportOf(doc, ts, ls), marked |-> ls.marked]

\* detectPolicyContent run in doc.
detectPolicyContent(doc) == outcomeOf(doc, textScanOf[doc.innerText], scanLinks(doc))

(***************************************************************************)
(* detectPolicyContent as a function of the page                           *)
(***************************************************************************)
InitPage ==
    /\ PopupIdle
    /\ pc = "page.loaded"
    /\ page \in Pages
    /\ policyData = NoReport
    /\ realTime = NoScan
    /\ returned = {}
    /\ BackgroundIdle

\* chrome.scripting.executeScript({function: detectPolicyContent}) runs in
\* the page; it may run again in the same document after a later tab update.
RunContentScript ==
    /\ pc \in {"page.loaded", "page.scanned"}
    /\ \E outcome \in {detectPolicyContent(page)} :
          /\ policyData' = outcome.report
          /\ page' = [page EXCEPT !.marked = outcome.marked]
    /\ pc' = "page.scanned"
    /\ UNCHANGED <<ai, runs, policyText, analyzeButton, summary, keyPoints, resultsDisplay,
                   riskIndicator, lastAlert, text, summaryText, enhancedSummary,
                   riskAnalysis, calls, autoVars, realTime, returned, bgVars>>

NextPage == RunContentScript

SpecPage == InitPage /\ [][NextPage]_vars

(***************************************************************************)
(* One text seen by the background scan, the popup's page scan and the     *)
(* manual analyzer                                                         *)
(***************************************************************************)
realTimePolicyKeywords == << "privacy policy", "terms of service", "cookie policy" >>

realTimeRiskyKeywords == << "sell your data", "third parties", "without notice" >>

\* The function performRealTimeAnalysis injects into the page, on the
\* lowered page text.
realTimeScan(doc, pageText) ==
    [completed |-> TRUE,
     hasPolicyContent |->
        \E k \in DOMAIN realTimePolicyKeywords : includes(pageText, realTimePolicyKeywords[k]),
     hasRiskyKeywords |->
        \E k \in DOMAIN realTimeRiskyKeywords : includes(pageText, realTimeRiskyKeywords[k]),
     hostname |-> doc.hostname]

\* A page without links renders the text; the same text is what the user
\* pastes into the manual analyzer.
InitScan ==
    /\ PopupIdle
    /\ pc = "scan"
    /\ \E t \in ScanTexts : page = Document(t, << >>)
    /\ policyData = NoReport
    /\ realTime = NoScan
    /\ returned = {}
    /\ BackgroundIdle

\* The background's content script runs in the page.
ScanInBackground ==
    /\ pc = "scan"
    /\ ~policyData.completed
    /\ policyData' = detectPolicyContent(page).report
    /\ UNCHANGED <<popupVars, page, realTime, returned, bgVars>>

\* The popup's injected function runs in the page.
ScanInPopup ==
    /\ pc = "scan"
    /\ ~realTime.completed
    /\ realTime' = realTimeScan(page, toLowerCase(page.innerText))
    /\ UNCHANGED <<popupVars, page, policyData, returned, bgVars>>

\* analyzeRiskFactors runs on the same text.
AssessPageText ==
    /\ pc = "scan"
    /\ riskAnalysis = NoAnalysis
    /\ text' = page.innerText
    /\ riskAnalysis' = analyzeRiskFactors(page.innerText)
    /\ UNCHANGED <<ai, runs, policyText, analyzeButton, summary, keyPoints, resultsDisplay,
                   riskIndicator, lastAlert, pc, summaryText, enhancedSummary, calls,
                   autoVars, pageVars, returned, bgVars>>

NextScan ==
    \/ ScanInBackground
    \/ ScanInPopup
    \/ AssessPageText

SpecScan == InitScan /\ [][NextScan]_vars

(***************************************************************************)
(* The background script: tab updates, page analysis, alerts, clean-up     *)
(***************************************************************************)
MaxLoads == 2

\* new URL(url).hostname: what lies between "://" and the next "/".
hostnameOf(url) ==
    IF ~includes(url, "://") THEN ""
    ELSE SubSeq(url,
                (CHOOSE i \in 1..Len(url) :
                    /\ SubSeq(url, i, i + 2) = "://"
                    /\ \A j \in 1..(i - 1) : SubSeq(url, j, j + 2) # "://") + 3,
                (CHOOSE e \in 1..(Len(url) + 1) :
                    /\ e > 3 + (CHOOSE i \in 1..Len(url) :
                                   /\ SubSeq(url, i, i + 2) = "://"
                                   /\ \A j \in 1..(i - 1) : SubSeq(url, j, j + 2) # "://")
                    /\ (e = Len(url) + 1 \/ CharAt(url, e) = "/")
                    /\ \A j \in 1..(e - 1) :
                          (j > 3 + (CHOOSE i \in 1..Len(url) :
                                      /\ SubSeq(url, i, i + 2) = "://"
                                      /\ \A m \in 1..(i - 1) : SubSeq(url, m, m + 2) # "://"))
                          => CharAt(url, j) # "/") - 1)

\* A document served at url.
Site(url, innerText, anchors) ==
    [Document(innerText, anchors) EXCEPT !.url = url, !.hostname = hostnameOf(url)]

\* What a tab may load: a page with a policy link but no phrase in its text,
\* a page with policy phrases, a page with a risk phrase, a page with both,
\* a browser page, an extension page and a tab whose URL the extension
\* cannot see.
Sites ==
    { Site("https://shop.example/", PlainText, <<AnchorPool[3].el, AnchorPool[9].el>>),
      Site("https://shop.example/terms", NoticeText, <<AnchorPool[1].el, AnchorPool[2].el>>),
      Site("https://news.example/account", RetentionText, << >>),
      Site("https://news.example/join", PolicyText, << >>),
      Site("chrome://settings/", PlainText, << >>),
      Site("chrome-extension://policypeek/popup.html", PlainText, << >>),
      Site("", PlainText, << >>) }

\* The badge texts stand for the warning-sign and the page emoji.
WarningBadge == [text |-> "warning", color |-> "#f44336"]

DocumentBadge == [text |-> "page", color |-> "#ff9800"]

\* Mutant of surfaced: only risky pages are surfaced.
surfaced_riskyOnly(data) == data.hasRiskyKeywords

\* if (policyData.hasPolicyContent || policyData.hasRiskyKeywords)
surfaced(data) == data.hasPolicyContent \/ data.hasRiskyKeywords

\* Mutant of badgeFor: the policy branch is tested first.
badgeFor_policyFirst(data) == IF data.hasPolicyContent THEN DocumentBadge ELSE WarningBadge

\* The badge showPolicyAlert chooses.
badgeFor(data) == IF data.hasRiskyKeywords THEN WarningBadge ELSE DocumentBadge

alertMessage(hostname) ==
    "Potential privacy risks detected on " \o hostname \o ". Click the extension icon to analyze."

\* Mutant of getAutoOpenSetting: the preference counts as enabled only when
\* stored as true.
getAutoOpenSetting_optIn(store, readOk) == readOk /\ store["autoOpenEnabled"] = Some(TRUE)

\* return result.autoOpenEnabled !== false, and true when the read rejects.
getAutoOpenSetting(store, readOk) ==
    IF readOk THEN store["autoOpenEnabled"] # Some(FALSE) ELSE TRUE

\* Mutant of startsAnalysis: the status of the update is not looked at.
startsAnalysis_anyStatus(status, url) ==
    /\ url # ""
    /\ ~startsWith(url, "chrome://")
    /\ ~startsWith(url, "chrome-extension://")

\* The onUpdated listener passes its two early returns.
startsAnalysis(status, url) ==
    /\ ~(status # "complete" \/ url = "")
    /\ ~(startsWith(url, "chrome://") \/ startsWith(url, "chrome-extension://"))

\* setTimeout(() => analyzePageForPolicies(tabId, tab), 2000) when the
\* listener passes its early returns; tab is the snapshot handed to it.
onUpdated(t, status, tab) ==
    IF startsAnalysis(status, tab.url)
    THEN timers \cup {[tabId |-> t, url |-> tab.url, load |-> tab.loads]}
    ELSE timers

RECURSIVE loadsIn(_)
loadsIn(T) ==
    IF T = {} THEN 0
    ELSE tabs[CHOOSE t \in T : TRUE].loads + loadsIn(T \ {CHOOSE t \in T : TRUE})

\* chrome.scripting.executeScript rejects for a closed tab and for a page
\* the extension may not touch.
injectable(tab) ==
    /\ tab.open
    /\ tab.url # ""
    /\ ~startsWith(tab.url, "chrome://")
    /\ ~startsWith(tab.url, "chrome-extension://")

InitBackground ==
    /\ PopupIdle
    /\ pc = "background"
    /\ PageIdle
    /\ returned = {}
    /\ BackgroundIdle

\* The tab opens or navigates to a page, and chrome.tabs.onUpdated fires
\* with status 'loading'. A tab id is not used again once its tab is closed.
Navigate(t, site) ==
    /\ loadsIn(TabIds) < MaxLoads
    /\ tabs[t].open \/ tabs[t].loads = 0
    /\ \E tab \in {[open |-> TRUE, url |-> site.url, content |-> site,
                    status |-> "loading", loads |-> tabs[t].loads + 1]} :
          /\ tabs' = [tabs EXCEPT ![t] = tab]
          /\ timers' = onUpdated(t, "loading", tab)
    /\ UNCHANGED <<popupVars, pageVars, returned, tasks, storage, badge,
                   notifications, finished>>

\* chrome.tabs.onUpdated fires with status 'complete'.
PageComplete(t) ==
    /\ tabs[t].open
    /\ tabs[t].status = "loading"
    /\ tabs' = [tabs EXCEPT ![t].status = "complete"]
    /\ timers' = onUpdated(t, "complete", tabs[t])
    /\ UNCHANGED <<popupVars, pageVars, returned, tasks, storage, badge, notifications,
                   finished>>

\* The timer fires: analyzePageForPolicies(tabId, tab) calls executeScript
\* and awaits it.
TimerFires(timer) ==
    /\ timer \in timers
    /\ timers' = timers \ {timer}
    /\ tasks' = tasks \cup {[tabId |-> timer.tabId, url |-> timer.url, load |-> timer.load,
                             pc |-> "executeScript", policyData |-> NoReport,
                             effects |-> {}, write |-> "none", found |-> Null,
                             autoOpen |-> Null, read |-> "none"]}
    /\ UNCHANGED <<popupVars, pageVars, returned, tabs, storage, badge, notifications,
                   finished>>

\* The injected function runs in whatever document the tab holds now.
ScriptRuns(task) ==
    /\ task \in tasks
    /\ task.pc = "executeScript"
    /\ IF injectable(tabs[task.tabId])
       THEN \E outcome \in {detectPolicyContent(tabs[task.tabId].content)} :
              /\ tabs' = [tabs EXCEPT ![task.tabId].content.marked = outcome.marked]
              /\ tasks' = (tasks \ {task}) \cup
                    {[task EXCEPT !.pc = "executeScript.resolved",
                                  !.policyData = outcome.report]}
       ELSE /\ tasks' = (tasks \ {task}) \cup {[task EXCEPT !.pc = "executeScript.rejected"]}
            /\ UNCHANGED tabs
    /\ UNCHANGED <<popupVars, pageVars, returned, timers, storage, badge, notifications,
                   finished>>

\* analyzePageForPolicies ends: the invocation leaves tasks and is kept, as
\* it was at its end, with what it did.
EndAs(task, last) ==
    /\ tasks' = tasks \ {task}
    /\ finished' = finished \cup
          {[tabId |-> last.tabId, url |-> last.url, load |-> last.load,
            policyData |-> last.policyData, effects |-> last.effects,
            write |-> last.write, autoOpen |-> last.autoOpen, read |-> last.read]}

End(task) == EndAs(task, task)

StepAs(task, last, nextPc, effect) ==
    /\ tasks' = (tasks \ {task}) \cup
          {[last EXCEPT !.pc = nextPc, !.effects = @ \cup effect]}
    /\ UNCHANGED finished

Step(task, nextPc, effect) == StepAs(task, task, nextPc, effect)

\* await executeScript settles: a rejection is caught and logged; for a
\* report worth surfacing chrome.storage.local.set is called, and the entry
\* is in storage from then on unless the write is one that rejects.
\* The stored timestamp (Date.now()) is read by nothing and is left out.
ExecuteScriptSettled(task, writeOk) ==
    /\ task \in tasks
    /\ task.pc \in {"executeScript.resolved", "executeScript.rejected"}
    /\ IF /\ task.pc = "executeScript.resolved"
          /\ task.policyData.completed
          /\ surfaced(task.policyData)
       THEN IF writeOk
            THEN /\ storage' = [storage EXCEPT ![analysisKey(task.tabId)] =
                                   Some([url |-> task.url, hostname |-> hostnameOf(task.url),
                                         policyData |-> task.policyData])]
                 /\ StepAs(task, [task EXCEPT !.write = "resolved"], "storage.set", {"stored"})
            ELSE /\ StepAs(task, [task EXCEPT !.write = "rejected"], "storage.set", {})
                 /\ UNCHANGED storage
       ELSE /\ End(task)
            /\ UNCHANGED storage
    /\ UNCHANGED <<popupVars, pageVars, returned, tabs, timers, badge, notifications>>

\* await storage.set settles. Rejected: the catch of analyzePageForPolicies
\* logs and the invocation ends. Resolved: showPolicyAlert calls
\* setBadgeText, which rejects when the tab is gone.
StorageSetSettled(task) ==
    /\ task \in tasks
    /\ task.pc = "storage.set"
    /\ IF task.write = "rejected"
       THEN /\ End(task)
            /\ UNCHANGED badge
       ELSE IF tabs[task.tabId].open
       THEN /\ badge' = [badge EXCEPT ![task.tabId].text = badgeFor(task.policyData).text]
            /\ Step(task, "setBadgeText", {"badgeText"})
       ELSE /\ Step(task, "rejected", {"noTab"})
            /\ UNCHANGED badge
    /\ UNCHANGED <<popupVars, pageVars, returned, tabs, timers, storage, notifications>>

\* await setBadgeText settles: setBadgeBackgroundColor is called.
SetBadgeTextSettled(task) ==
    /\ task \in tasks
    /\ task.pc = "setBadgeText"
    /\ IF tabs[task.tabId].open
       THEN /\ badge' = [badge EXCEPT ![task.tabId].color = badgeFor(task.policyData).color]
            /\ Step(task, "setBadgeBackgroundColor", {"badgeColor"})
       ELSE /\ Step(task, "rejected", {"noTab"})
            /\ UNCHANGED badge
    /\ UNCHANGED <<popupVars, pageVars, returned, tabs, timers, storage, notifications>>

\* await setBadgeBackgroundColor settles: getAutoOpenSetting calls
\* chrome.storage.local.get(['autoOpenEnabled']). The store serves its calls
\* in the order they were made, so the read finds what is stored now.
SetBadgeColorSettled(task) ==
    /\ task \in tasks
    /\ task.pc = "setBadgeBackgroundColor"
    /\ StepAs(task, [task EXCEPT !.found = storage["autoOpenEnabled"]], "storage.get", {})
    /\ UNCHANGED <<popupVars, pageVars, returned, tabs, timers, storage, badge,
                   notifications>>

\* The result of a read of autoOpenEnabled that found value.
resultOf(value) == [key \in {"autoOpenEnabled"} |-> value]

\* await getAutoOpenSetting settles, the storage read having resolved with
\* what it found when it was called, or rejected: the notification is created
\* for a risky page when the setting is on; showPolicyAlert returns.
StorageGetSettled(task, readOk) ==
    /\ task \in tasks
    /\ task.pc = "storage.get"
    /\ \E autoOpenEnabled \in {getAutoOpenSetting(resultOf(task.found), readOk)} :
          IF autoOpenEnabled /\ task.policyData.hasRiskyKeywords
          THEN /\ notifications' = notifications \cup {alertMessage(task.policyData.hostname)}
               /\ EndAs(task, [task EXCEPT !.effects = @ \cup {"notified"},
                                           !.autoOpen = Some(autoOpenEnabled),
                                           !.read = IF readOk THEN "resolved" ELSE "rejected"])
          ELSE /\ EndAs(task, [task EXCEPT !.autoOpen = Some(autoOpenEnabled),
                                           !.read = IF readOk THEN "resolved" ELSE "rejected"])
               /\ UNCHANGED notifications
    /\ UNCHANGED <<popupVars, pageVars, returned, tabs, timers, storage, badge>>

\* catch (error) of showPolicyAlert: logged, and analyzePageForPolicies ends.
AlertRejected(task) ==
    /\ task \in tasks
    /\ task.pc = "rejected"
    /\ End(task)
    /\ UNCHANGED <<popupVars, pageVars, returned, tabs, timers, storage, badge,
                   notifications>>

\* The tab is closed: the browser drops its badge, and the onRemoved
\* listener calls chrome.storage.local.remove for its analysis; when the
\* removal rejects the error is logged and the entry stays.
CloseTab(t, removeOk) ==
    /\ tabs[t].open
    /\ tabs' = [tabs EXCEPT ![t] = [NoTab EXCEPT !.loads = tabs[t].loads]]
    /\ badge' = [badge EXCEPT ![t] = NoBadge]
    /\ storage' = IF removeOk THEN [storage EXCEPT ![analysisKey(t)] = Null] ELSE storage
    /\ UNCHANGED <<popupVars, pageVars, returned, timers, tasks, notifications, finished>>

\* The setAutoOpen message: the preference is stored and { success: true }
\* goes back to the sender, or the write rejects, nothing is stored and
\* { success: false } goes back.
SetAutoOpen(enabled, writeOk) ==
    /\ storage' = IF writeOk THEN [storage EXCEPT !["autoOpenEnabled"] = Some(enabled)]
                  ELSE storage
    /\ UNCHANGED <<popupVars, pageVars, returned, tabs, timers, tasks, badge, notifications,
                   finished>>

MaxRequests == 2

RequestIds == 1..MaxRequests

\* Mutant of sendResponses: the catch of the storage read only logs.
sendResponses_silentOnError(value, readOk) == IF readOk THEN <<value>> ELSE << >>

\* The sendResponse calls of the handler once chrome.storage.local.get has
\* settled: result[key] || null from then, null from catch. value is the
\* entry under the key, Null when there is none.
sendResponses(value, readOk) == IF readOk THEN <<value>> ELSE <<Null>>

\* A getPageAnalysis message arrives: the listener calls
\* chrome.storage.local.get and returns true, keeping the channel open.
\* stored is what the read finds.
GetPageAnalysisReceived(id, tabId) ==
    /\ \A request \in returned : request.id # id
    /\ \A earlier \in RequestIds : earlier < id => \E request \in returned : request.id = earlier
    /\ returned' = returned \cup {[id |-> id, tabId |-> tabId, pc |-> "storage.get",
                                   stored |-> storage[analysisKey(tabId)],
                                   responses |-> << >>]}
    /\ UNCHANGED <<popupVars, pageVars, bgVars>>

\* chrome.storage.local.get settles for a request: then or catch calls
\* sendResponse, and the handler is finished with the request.
GetPageAnalysisSettled(request, readOk) ==
    /\ request \in returned
    /\ request.pc = "storage.get"
    /\ returned' = (returned \ {request})
                   \cup {[request EXCEPT !.pc = "done",
                                         !.responses = @ \o sendResponses(request.stored, readOk)]}
    /\ UNCHANGED <<popupVars, pageVars, bgVars>>

NextBackground ==
    \/ \E t \in TabIds, site \in Sites : Navigate(t, site)
    \/ \E t \in TabIds : PageComplete(t)
    \/ \E timer \in timers : TimerFires(timer)
    \/ \E task \in tasks : ScriptRuns(task)
    \/ \E task \in tasks, writeOk \in BOOLEAN : ExecuteScriptSettled(task, writeOk)
    \/ \E task \in tasks : StorageSetSettled(task)
    \/ \E task \in tasks : SetBadgeTextSettled(task)
    \/ \E task \in tasks : SetBadgeColorSettled(task)
    \/ \E task \in tasks, readOk \in BOOLEAN : StorageGetSettled(task, readOk)
    \/ \E task \in tasks : AlertRejected(task)
    \/ \E t \in TabIds, removeOk \in BOOLEAN : CloseTab(t, removeOk)
    \/ \E enabled \in BOOLEAN, writeOk \in BOOLEAN : SetAutoOpen(enabled, writeOk)

SpecBackground == InitBackground /\ [][NextBackground]_vars

\* The tab the popup is opened on.
ActiveTab == 1

\* The pages the tab of the popup visits: one with policy links but no
\* phrase, one with policy phrases and one with a risk phrase.
Visited ==
    {site \in Sites : site.url \in {"https://shop.example/", "https://shop.example/terms",
                                     "https://news.example/account"}}

\* How many getPageAnalysis messages the popup sends.
MaxAsked == 1

\* The background script serving the popup of one tab: the tab's loads and
\* analyses, and the two messages of the popup.
NextMessages ==
    \/ \E site \in Visited : Navigate(ActiveTab, site)
    \/ PageComplete(ActiveTab)
    \/ \E timer \in timers : TimerFires(timer)
    \/ \E task \in tasks : ScriptRuns(task)
    \/ \E task \in tasks, writeOk \in BOOLEAN : ExecuteScriptSettled(task, writeOk)
    \/ \E task \in tasks : StorageSetSettled(task)
    \/ \E task \in tasks : SetBadgeTextSettled(task)
    \/ \E task \in tasks : SetBadgeColorSettled(task)
    \/ \E task \in tasks, readOk \in BOOLEAN : StorageGetSettled(task, readOk)
    \/ \E task \in tasks : AlertRejected(task)
    \/ \E removeOk \in BOOLEAN : CloseTab(ActiveTab, removeOk)
    \/ \E enabled \in BOOLEAN, writeOk \in BOOLEAN : SetAutoOpen(enabled, writeOk)
    \/ \E id \in 1..MaxAsked, tabId \in TabIds : GetPageAnalysisReceived(id, tabId)
    \/ \E request \in returned, readOk \in BOOLEAN : GetPageAnalysisSettled(request, readOk)

SpecMessages == InitBackground /\ [][NextMessages]_vars

(***************************************************************************)
(* analyzeCurrentPage: the popup's analysis of the active tab              *)
(***************************************************************************)
\* What analyzeCurrentPage leaves alone.
besidePageAnalysis == <<ai, runs, policyText, analyzeButton, summary, keyPoints, resultsDisplay,
                        lastAlert, pc, text, summaryText, enhancedSummary, riskAnalysis,
                        calls>>

Indicator(level, description) == [level |-> level, description |-> description]

\* Mutant of CouldNotAnalyze: the catch leaves the indicator as it is.
CouldNotAnalyze_notShown == Indicator("analyzing", "Analyzing current website...")

\* catch (error) of analyzeCurrentPage.
CouldNotAnalyze == Indicator("risky", "Could not analyze current page")

\* The indicator displayAutoDetectedAnalysis shows for a stored entry.
autoDetectedIndicator(analysisData) ==
    IF analysisData.policyData.hasRiskyKeywords
    THEN Indicator("risky",
            "Potential privacy risks detected on " \o analysisData.hostname \o ". Found: "
            \o join(analysisData.policyData.foundRiskyTerms, ", ", 1))
    ELSE IF analysisData.policyData.hasPolicyContent
    THEN Indicator("safe",
            "Privacy policy detected on " \o analysisData.hostname \o ". "
            \o ToString(Len(analysisData.policyData.foundPolicyLinks)) \o " policy links found.")
    ELSE Indicator("safe",
            analysisData.hostname \o " appears to have standard privacy practices.")

\* The indicator performRealTimeAnalysis shows for the injected function's
\* result.
realTimeIndicator(analysis) ==
    IF analysis.hasRiskyKeywords
    THEN Indicator("risky", "Potential privacy risks detected on " \o analysis.hostname)
    ELSE IF analysis.hasPolicyContent
    THEN Indicator("safe", "Privacy policy content found on " \o analysis.hostname)
    ELSE Indicator("safe", analysis.hostname \o " appears to have standard privacy practices.")

\* new URL(url) throws for a URL that is missing or empty.
urlThrows(url) == url = ""

NoResultIndicator(url) ==
    Indicator("safe", hostnameOf(url) \o " - No policy content detected. Use manual analysis below.")

InjectionFailedIndicator(url) ==
    Indicator("safe", hostnameOf(url) \o " - Click \"Analyze Custom Policy\" to check specific terms.")

\* How executeScript may settle for the popup: with the function's result,
\* with no frame result, with a frame whose result is null, or rejected; a
\* page the extension may not touch always rejects.
InjectionOutcomes(tab) ==
    IF injectable(tab) THEN {"result", "noFrames", "nullResult", "rejected"} ELSE {"rejected"}

\* The entry the background script stores for a page it flags.
entryOf(site) ==
    [url |-> site.url, hostname |-> hostnameOf(site.url),
     policyData |-> detectPolicyContent(site).report]

\* The entries and in-page results of the pages of the model, computed once.
entryOfSite == [site \in Sites |-> entryOf(site)]

realTimeOfSite == [site \in Sites |-> realTimeScan(site, toLowerCase(site.innerText))]

FlaggedSites == {site \in Sites : injectable([open |-> TRUE, url |-> site.url])
                                  /\ surfaced(entryOfSite[site].policyData)}

NoActiveTab == tabs = [t \in TabIds |-> NoTab]

ActiveTabShows(site) ==
    tabs = [t \in TabIds |->
               IF t = ActiveTab
               THEN [open |-> TRUE, url |-> site.url, content |-> site,
                     status |-> "complete", loads |-> 1]
               ELSE NoTab]

ActiveTabStored(stored) ==
    storage = [k \in StorageKeys |-> IF k = analysisKey(ActiveTab) THEN stored ELSE Null]

\* The popup opens: no tab is active, or the active tab shows some page, and
\* storage holds no analysis for it or one the background script stored.
InitPopupPage ==
    /\ PopupSettled
    /\ pc = "idle"
    /\ pagePc = "init"
    /\ pageCalls = << >>
    /\ PageIdle
    /\ returned = {}
    /\ timers = {}
    /\ tasks = {}
    /\ finished = {}
    /\ notifications = {}
    /\ badge = [t \in TabIds |-> NoBadge]
    /\ \/ NoActiveTab
       \/ \E site \in Sites : ActiveTabShows(site)
    /\ \E stored \in {Null} \cup {Some(entryOfSite[site]) : site \in FlaggedSites} :
          ActiveTabStored(stored)

\* init resumes from await checkAIAvailability() and calls
\* analyzeCurrentPage: the indicator shows 'analyzing' and chrome.tabs.query
\* is awaited.
StartPageAnalysis ==
    /\ pagePc = "init"
    /\ riskIndicator' = Indicator("analyzing", "Analyzing current website...")
    /\ pageCalls' = <<NewCall("tabs.query", "")>>
    /\ pagePc' = "tabs.query"
    /\ UNCHANGED besidePageAnalysis
    /\ UNCHANGED <<pageVars, returned, bgVars>>

\* performRealTimeAnalysis(tab) starts: executeScript is called and awaited.
\* site is "else" for the call after a null response and "catch" for the
\* call in catch (messageError).
performRealTimeAnalysis(log, site) ==
    /\ pageCalls' = Append(log, NewCall("executeScript", site))
    /\ pagePc' = "executeScript." \o site
    /\ UNCHANGED <<riskIndicator, policyData, realTime>>

\* await chrome.tabs.query settles.
TabsQuerySettled(ok) ==
    /\ pagePc = "tabs.query"
    /\ NoMicrotaskPending
    /\ IF ~ok
       THEN /\ riskIndicator' = CouldNotAnalyze
            /\ pageCalls' = Settled(pageCalls, "throw", "")
            /\ pagePc' = "done"
       ELSE IF ~tabs[ActiveTab].open
       THEN /\ riskIndicator' = Indicator("safe", "No active tab found")
            /\ pageCalls' = Settled(pageCalls, "value", "")
            /\ pagePc' = "done"
       ELSE /\ pageCalls' = Append(Settled(pageCalls, "value", "tab"),
                               NewCall("sendMessage", "getPageAnalysis"))
            /\ pagePc' = "sendMessage"
            /\ UNCHANGED riskIndicator
    /\ UNCHANGED besidePageAnalysis
    /\ UNCHANGED <<pageVars, returned, bgVars>>

\* await chrome.runtime.sendMessage settles: with the background's answer
\* (the stored entry, or null when there is none or its read rejected), or
\* rejected.
SendMessageSettled(ok, readOk) ==
    /\ pagePc = "sendMessage"
    /\ NoMicrotaskPending
    /\ \E response \in {IF readOk THEN storage[analysisKey(ActiveTab)] ELSE Null} :
          IF ~ok
          THEN performRealTimeAnalysis(Settled(pageCalls, "throw", ""), "catch")
          ELSE IF response # Null
          THEN /\ riskIndicator' = autoDetectedIndicator(response[1])
               /\ policyData' = response[1].policyData
               /\ pageCalls' = Settled(pageCalls, "value", "entry")
               /\ pagePc' = "done"
               /\ UNCHANGED realTime
          ELSE performRealTimeAnalysis(Settled(pageCalls, "value", "null"), "else")
    /\ UNCHANGED besidePageAnalysis
    /\ UNCHANGED <<page, returned, bgVars>>

\* await chrome.scripting.executeScript settles inside
\* performRealTimeAnalysis. Without a usable result the hostname is taken
\* from tab.url; when that throws, performRealTimeAnalysis throws: into
\* catch (messageError) when called after a null response, which pageCalls it
\* again, and into the catch of analyzeCurrentPage when called from there.
RealTimeSettled(outcome) ==
    /\ pagePc \in {"executeScript.else", "executeScript.catch"}
    /\ NoMicrotaskPending
    /\ outcome \in InjectionOutcomes(tabs[ActiveTab])
    /\ IF outcome = "result"
       THEN \E analysis \in {realTimeOfSite[tabs[ActiveTab].content]} :
              /\ realTime' = analysis
              /\ riskIndicator' = realTimeIndicator(analysis)
              /\ pageCalls' = Settled(pageCalls, "value", outcome)
              /\ pagePc' = "done"
              /\ UNCHANGED policyData
       ELSE IF ~urlThrows(tabs[ActiveTab].url)
       THEN /\ riskIndicator' = IF outcome = "noFrames"
                                THEN NoResultIndicator(tabs[ActiveTab].url)
                                ELSE InjectionFailedIndicator(tabs[ActiveTab].url)
            /\ pageCalls' = Settled(pageCalls, IF outcome = "rejected" THEN "throw" ELSE "value", outcome)
            /\ pagePc' = "done"
            /\ UNCHANGED <<policyData, realTime>>
       ELSE IF pagePc = "executeScript.else"
       THEN performRealTimeAnalysis(
               Settled(pageCalls, IF outcome = "rejected" THEN "throw" ELSE "value", outcome),
               "catch")
       ELSE /\ riskIndicator' = CouldNotAnalyze
            /\ pageCalls' = Settled(pageCalls, IF outcome = "rejected" THEN "throw" ELSE "value", outcome)
            /\ pagePc' = "done"
            /\ UNCHANGED <<policyData, realTime>>
    /\ UNCHANGED besidePageAnalysis
    /\ UNCHANGED <<page, returned, bgVars>>

\* The steps of init and analyzeCurrentPage.
AnalyzeCurrentPage ==
    \/ StartPageAnalysis
    \/ \E ok \in BOOLEAN : TabsQuerySettled(ok)
    \/ \E ok \in BOOLEAN, readOk \in BOOLEAN : SendMessageSettled(ok, readOk)
    \/ \E outcome \in {"result", "noFrames", "nullResult", "rejected"} : RealTimeSettled(outcome)

NextPopupPage == AnalyzeCurrentPage

SpecPopupPage == InitPopupPage /\ [][NextPopupPage]_vars

\* Every awaited browser call settles, and the continuation then runs.
FairSpecPopupPage == SpecPopupPage /\ WF_vars(NextPopupPage)

(***************************************************************************)
(* The popup: the manual analysis beside the analysis of the active tab    *)
(***************************************************************************)
\* The pages the popup of the manual analysis is opened on: those reported
\* with both flags.
OpenedOn == {site \in FlaggedSites : /\ entryOfSite[site].policyData.hasPolicyContent
                                      /\ entryOfSite[site].policyData.hasRiskyKeywords}

\* The popup has been opened and its DOMContentLoaded handler has returned,
\* leaving init() at its first await: on a window with no active tab, or
\* on a tab whose page the background script has analysed and stored. The
\* popup document holds every element the script looks up.
Init ==
    /\ ai \in AiConfigs
    /\ runs = 0
    /\ policyText = ""
    /\ analyzeButton = [disabled |-> FALSE, textContent |-> "Analyze Policy"]
    /\ summary = ""
    /\ keyPoints = [foundRisks |-> << >>, foundPositives |-> << >>]
    /\ resultsDisplay = "none"
    /\ riskIndicator = [level |-> "none", description |-> ""]
    /\ lastAlert = ""
    /\ pc = "idle"
    /\ IdleLocals
    /\ pagePc = "init"
    /\ pageCalls = << >>
    /\ PageIdle
    /\ returned = {}
    /\ timers = {}
    /\ tasks = {}
    /\ finished = {}
    /\ notifications = {}
    /\ badge = [t \in TabIds |-> NoBadge]
    /\ \/ NoActiveTab /\ ActiveTabStored(Null)
       \/ \E site \in OpenedOn :
             ActiveTabShows(site) /\ ActiveTabStored(Some(entryOfSite[site]))

Next ==
    \/ \E v \in ManualTexts : SetText(v)
    \/ ClickRejected
    \/ runs < MaxRuns /\ ClickAnalyze
    \/ Resume
    \/ Hang
    \/ Finally
    \/ AnalyzeCurrentPage

Spec == Init /\ [][Next]_vars

\* The event loop runs a continuation once its promise has settled, and the
\* finally block once analyzePolicyText has returned. A promise that is still
\* pending settles or is found never to settle. The user need not act.
FairSpec ==
    /\ Spec
    /\ WF_vars(Resume \/ Hang)
    /\ WF_vars(Finally)
    /\ WF_vars(AnalyzeCurrentPage)

(***************************************************************************)
(* The popup: one manual analysis after another                            *)
(***************************************************************************)
\* The clicks on Analyze followed in one popup session.
MaxClicks == 2

\* What the user leaves in the textarea between the clicks.
ClickTexts == {"", LongSafe, LongRisky}

\* The popup as in Init, over a document that holds the results element or
\* lacks it, on a browser that exposes no provider or all of them.
InitClicks ==
    /\ ai \in {[present |-> FALSE, apis |-> {}], [present |-> TRUE, apis |-> Providers]}
    /\ runs = 0
    /\ policyText = ""
    /\ analyzeButton = [disabled |-> FALSE, textContent |-> "Analyze Policy"]
    /\ summary = ""
    /\ keyPoints = [foundRisks |-> << >>, foundPositives |-> << >>]
    /\ resultsDisplay \in {"none", NoElement}
    /\ riskIndicator = [level |-> "none", description |-> ""]
    /\ lastAlert = ""
    /\ pc = "idle"
    /\ IdleLocals
    /\ pagePc = "init"
    /\ pageCalls = << >>
    /\ PageIdle
    /\ returned = {}
    /\ timers = {}
    /\ tasks = {}
    /\ finished = {}
    /\ notifications = {}
    /\ badge = [t \in TabIds |-> NoBadge]
    /\ \/ NoActiveTab /\ ActiveTabStored(Null)
       \/ \E site \in OpenedOn :
             ActiveTabShows(site) /\ ActiveTabStored(Some(entryOfSite[site]))

NextClicks ==
    \/ \E v \in ClickTexts : SetText(v)
    \/ ClickRejected
    \/ runs < MaxClicks /\ ClickAnalyze
    \/ Resume
    \/ Hang
    \/ Finally
    \/ AnalyzeCurrentPage

SpecClicks == InitClicks /\ [][NextClicks]_vars

(***************************************************************************)
(* The getPageAnalysis handler of the background script                    *)
(***************************************************************************)
\* The background script is running beside a tab that shows some page, with
\* or without a stored analysis; no request has arrived.
InitRequests ==
    /\ PopupIdle
    /\ pc = "background"
    /\ PageIdle
    /\ returned = {}
    /\ timers = {}
    /\ tasks = {}
    /\ finished = {}
    /\ notifications = {}
    /\ badge = [t \in TabIds |-> NoBadge]
    /\ \E site \in Sites :
          tabs = [t \in TabIds |->
                     IF t = ActiveTab
                     THEN [open |-> TRUE, url |-> site.url, content |-> site,
                           status |-> "complete", loads |-> 1]
                     ELSE NoTab]
    /\ \E stored \in {Null} \cup {Some(entryOfSite[site]) : site \in FlaggedSites} :
          storage = [k \in StorageKeys |-> IF k = analysisKey(ActiveTab) THEN stored ELSE Null]

NextRequests ==
    \/ \E id \in RequestIds, tabId \in TabIds : GetPageAnalysisReceived(id, tabId)
    \/ \E request \in returned, readOk \in BOOLEAN : GetPageAnalysisSettled(request, readOk)
    \/ \E removeOk \in BOOLEAN : CloseTab(ActiveTab, removeOk)

SpecRequests == InitRequests /\ [][NextRequests]_vars

\* Every storage read settles, and its then or catch callback runs.
FairSpecRequests ==
    /\ SpecRequests
    /\ \A id \in RequestIds :
          WF_vars(\E request \in returned, readOk \in BOOLEAN :
                     request.id = id /\ GetPageAnalysisSettled(request, readOk))

(***************************************************************************)
(* What the call log of the run in progress says                           *)
(***************************************************************************)
Called(api) == \E i \in DOMAIN calls : calls[i].api = api

Threw(api) == \E i \in DOMAIN calls : calls[i].api = api /\ calls[i].kind = "throw"

\* The string a transform call resolved with, "" if it did not resolve.
OutputOf(api) ==
    IF \E i \in DOMAIN calls : calls[i].api = api /\ calls[i].kind = "value"
    THEN calls[CHOOSE i \in DOMAIN calls : calls[i].api = api /\ calls[i].kind = "value"].value
    ELSE ""

InputOf(api) == calls[CHOOSE i \in DOMAIN calls : calls[i].api = api].input

CondenseOutput == OutputOf("summarizer.summarize")

ReframeOutput == OutputOf("writer.write")

PolishOutput == OutputOf("rewriter.rewrite")

ReframeThrew == Threw("writer.create") \/ Threw("writer.write")

PolishThrew == Threw("rewriter.create") \/ Threw("rewriter.rewrite")

PolishCalled == Called("rewriter.create") \/ Called("rewriter.rewrite")

ReframeCalled == Called("writer.create") \/ Called("writer.write")

\* The number of maximal runs of non-whitespace characters.
TokenCount(t) ==
    Cardinality({i \in 1..Len(t) : ~isSpace(CharAt(t, i)) /\ (i = 1 \/ isSpace(CharAt(t, i - 1)))})

HeuristicSentence(wordCount) ==
    "Policy contains " \o ToString(wordCount) \o " words. Analysis based on risk keyword detection."

\* analyzePolicyText has returned and the handler's finally has not run yet.
Displayed == pc = "finally"

(***************************************************************************)
(* Claims                                                                  *)
(***************************************************************************)

\* C1: whatever the providers did (absent, threw, returned a string), a
\* finished manual analysis shows a non-empty summary in the visible results.
C1_SummaryNonEmpty ==
    Displayed => (summary # "" /\ resultsDisplay = "block")

\* A run with all three providers present in which the first one threw.
C1_Witness ==
    /\ Displayed
    /\ ai.apis = Providers
    /\ Threw("summarizer.summarize")
    /\ summary # ""

\* C2: every analysis that passed validation eventually displays a summary
\* and its risk classification, even if a provider call never completes.
C2_EventuallyDisplayed ==
    analyzeButton.disabled ~>
        (Displayed /\ summary # "" /\ riskAnalysis # NoAnalysis
         /\ keyPoints = [foundRisks |-> riskAnalysis.foundRisks,
                         foundPositives |-> riskAnalysis.foundPositives])

\* C3: level is risky exactly when riskScore >= 1, and safe otherwise.
C3_LevelIffScore ==
    pc = "risk.done" =>
        /\ riskAnalysis.level \in {"safe", "risky"}
        /\ (riskAnalysis.level = "risky") <=> (riskAnalysis.riskScore >= 1 * ScoreUnit)

\* A text scoring exactly 1.
C3_Witness ==
    /\ pc = "risk.done"
    /\ riskAnalysis.riskScore = 1 * ScoreUnit
    /\ riskAnalysis.level = "risky"

ExpectedRisks(P) == UNION {PhrasePool[i].risks : i \in P}

ExpectedPositives(P) == UNION {PhrasePool[i].positives : i \in P}

\* C4: riskScore is the number of distinct risk phrases in the text minus 0.5
\* times the number of distinct positive phrases, unclamped; one risk phrase
\* with one positive phrase gives 0.5 and level safe.
C4_ScoreFormula ==
    pc = "risk.done" =>
        \A P \in Samples : text = RiskText(P) =>
            /\ riskAnalysis.riskScore =
                  ScoreUnit * Cardinality(ExpectedRisks(P))
                  - (ScoreUnit \div 2) * Cardinality(ExpectedPositives(P))
            /\ (Cardinality(ExpectedRisks(P)) = 1 /\ Cardinality(ExpectedPositives(P)) = 1)
                  => (riskAnalysis.riskScore = ScoreUnit \div 2 /\ riskAnalysis.level = "safe")

\* Only positive phrases matched: the score is below zero.
C4_Witness ==
    /\ pc = "risk.done"
    /\ riskAnalysis.foundRisks = << >>
    /\ riskAnalysis.foundPositives # << >>
    /\ riskAnalysis.riskScore < 0

\* C5: three exhaustive, exclusive bands select the description and level:
\* score >= 3, 1 <= score < 3, score < 1.
C5_ThreeBands ==
    pc = "risk.done" =>
        LET r == riskAnalysis
        IN /\ r.riskScore >= 3 * ScoreUnit
                => (r.description = DescMultiple /\ r.level = "risky")
           /\ (r.riskScore >= 1 * ScoreUnit /\ r.riskScore < 3 * ScoreUnit)
                => (r.description = DescSome /\ r.level = "risky")
           /\ r.riskScore < 1 * ScoreUnit
                => (r.description = DescNone /\ r.level = "safe")

\* A text scoring exactly 3.
C5_Witness ==
    /\ pc = "risk.done"
    /\ riskAnalysis.riskScore = 3 * ScoreUnit
    /\ riskAnalysis.description = DescMultiple

\* C6: the final summary is the output of the last stage (condense, reframe,
\* polish) that produced a non-empty result, or the generated sentence if
\* none did.
C6_LastNonEmptyStage ==
    Displayed =>
        summary = IF PolishOutput # "" THEN PolishOutput
                  ELSE IF ReframeOutput # "" THEN ReframeOutput
                  ELSE IF CondenseOutput # "" THEN CondenseOutput
                  ELSE HeuristicSentence(TokenCount(text))

\* C7: when condense is absent, throws or returns an empty result, neither
\* reframe nor polish is invoked and the summary is the generated sentence
\* with the number of whitespace-separated tokens of the text.
C7_CondenseFailureGivesHeuristic ==
    (Displayed /\ CondenseOutput = "") =>
        /\ ~ReframeCalled
        /\ ~PolishCalled
        /\ summary = HeuristicSentence(TokenCount(text))

\* Condense threw with reframe and polish both available, on a text with
\* runs of spaces, a tab and newlines inside.
C7_Witness ==
    /\ Displayed
    /\ ai.apis = Providers
    /\ Threw("summarizer.create")
    /\ text = trim(LongRisky)
    /\ summary = HeuristicSentence(22)

FallbackDescriptionShown == riskIndicator.description = "Failed to analyze policy text"

\* C8: a failed stage hands on the prior stage's output unchanged, and no
\* provider exception leaves its stage: after a reframe failure the text
\* carried forward is the condense output, after a polish failure the final
\* text is what stage 2 yielded, and neither the catch-all analysis nor the
\* error display is ever reached.
C8_FailureKeepsPriorOutput ==
    /\ (ReframeThrew /\ PolishOutput = "" /\ ~Called("rewriter.rewrite") /\ pc # "idle")
          => (enhancedSummary = CondenseOutput /\ CondenseOutput # "")
    /\ (ReframeThrew /\ Called("rewriter.rewrite"))
          => InputOf("rewriter.rewrite") = CondenseOutput
    /\ (Displayed /\ PolishThrew)
          => summary = (IF ReframeThrew THEN CondenseOutput ELSE ReframeOutput)
    /\ Displayed => (keyPoints = [foundRisks |-> riskAnalysis.foundRisks,
                                  foundPositives |-> riskAnalysis.foundPositives]
                     /\ riskAnalysis # NoAnalysis)
    /\ ~FallbackDescriptionShown

\* Reframe threw, then polish threw: the condense output is displayed.
C8_Witness ==
    /\ Displayed
    /\ Threw("writer.write")
    /\ Threw("rewriter.rewrite")
    /\ summary = S1

\* C9 as stated: polish is called only in runs where reframe produced output.
C9_PolishOnlyAfterReframeOutput ==
    PolishCalled => ReframeOutput # ""

\* C9, amended: polish is called only in runs where reframe was attempted and
\* either returned a non-empty text or threw (the condense output is then
\* carried forward); it is never called when reframe is absent, was not
\* attempted or returned an empty text.
C9_PolishOnlyAfterReframeAttempt ==
    /\ PolishCalled => (ReframeOutput # "" \/ ReframeThrew)
    /\ (pc # "idle" /\ ~available("writer")) => ~PolishCalled
    /\ (Displayed /\ ~ReframeCalled) => ~PolishCalled
    /\ (Displayed /\ Called("writer.write") /\ ~ReframeThrew /\ ReframeOutput = "") => ~PolishCalled

\* Reframe threw and polish was still called, on the condense output.
C9_Witness ==
    /\ Threw("writer.write")
    /\ Called("rewriter.rewrite")
    /\ InputOf("rewriter.rewrite") = S1

\* C10 as stated: reframe is given the condensed text when stage 1 produced
\* it, and the raw input text when the condense stage is absent.
C10_ReframeInput ==
    Displayed =>
        /\ (CondenseOutput # "" /\ Called("writer.write"))
              => includes(InputOf("writer.write"), CondenseOutput)
        /\ (~available("summarizer") /\ available("writer"))
              => (Called("writer.write") /\ includes(InputOf("writer.write"), text))

\* C10, amended: reframe is given the fixed instruction followed by the
\* condensed text when stage 1 produced a non-empty one, and is not invoked
\* at all when the condense stage is absent.
C10_ReframeInputIsCondensed ==
    /\ Called("writer.write")
          => (CondenseOutput # "" /\ InputOf("writer.write") = PromptPrefix \o CondenseOutput)
    /\ (pc # "idle" /\ ~available("summarizer")) => ~ReframeCalled

\* Reframe was asked to rewrite the condense output.
C10_Witness ==
    /\ Called("writer.write")
    /\ CondenseOutput = S1
    /\ InputOf("writer.write") = PromptPrefix \o S1

\* String.prototype.trim of every text the textarea may hold.
Trimmed == [v \in ManualTexts |-> trim(v)]

\* C11: a click whose trimmed input is empty or shorter than 100 characters
\* is rejected with an alert (100 characters exactly is accepted); the
\* rejection calls no provider, computes no risk assessment, and leaves the
\* displayed summary, key points, risk indicator and button as they were.
C11_RejectedWithoutEffect ==
    [][ /\ (lastAlert' # lastAlert) =>
              /\ Len(Trimmed[policyText]) < 100
              /\ lastAlert' = (IF Trimmed[policyText] = "" THEN AlertEmpty ELSE AlertShort)
              /\ UNCHANGED <<summary, keyPoints, resultsDisplay, riskIndicator,
                             analyzeButton, riskAnalysis, calls, pc>>
        /\ (pc = "idle" /\ pc' # "idle") =>
              /\ Len(Trimmed[policyText]) >= 100
              /\ text' = Trimmed[policyText]
              /\ lastAlert' = lastAlert
      ]_vars

\* A 99-character text was rejected while an earlier result is on display.
C11_Witness ==
    /\ pc = "idle"
    /\ lastAlert = AlertShort
    /\ policyText = SubSeq(Exact100, 1, 99)
    /\ resultsDisplay = "block"
    /\ summary # ""

StageOf(api) ==
    IF api \in {"summarizer.create", "summarizer.summarize"} THEN 1
    ELSE IF api \in {"writer.create", "writer.write"} THEN 2
    ELSE 3

Finished(i) == calls[i].kind \in {"value", "throw"}

\* C20: the stages of one manual analysis run strictly one after the other:
\* a provider call is started only when every earlier call of the run has
\* completed or failed, reframe only after the condense call completed,
\* polish only after the reframe call completed or failed, and the risk
\* assessment and the display only after every attempted call has finished.
C20_StagesSequential ==
    /\ \A i \in DOMAIN calls : i < Len(calls) => Finished(i)
    /\ \A i, j \in DOMAIN calls : i < j => StageOf(calls[i].api) <= StageOf(calls[j].api)
    /\ ReframeCalled =>
          \E i \in DOMAIN calls : calls[i].api = "summarizer.summarize" /\ calls[i].kind = "value"
    /\ PolishCalled =>
          \E i \in DOMAIN calls : StageOf(calls[i].api) = 2 /\ Finished(i)
                                   /\ (calls[i].api = "writer.write" \/ calls[i].kind = "throw")
    /\ (riskAnalysis # NoAnalysis \/ Displayed) => \A i \in DOMAIN calls : Finished(i)

\* All three providers were created and called, and the result is displayed.
C20_Witness ==
    /\ Displayed
    /\ Len(calls) = 6
    /\ riskAnalysis # NoAnalysis
    /\ \A i \in DOMAIN calls : calls[i].kind = "value"

(***************************************************************************)
(* What a page holds, told from how it was built                           *)
(***************************************************************************)
Scanned == pc = "page.scanned"

Take(list, n) == SubSeq(list, 1, IF Len(list) < n THEN Len(list) ELSE n)

\* Whether one of the nine conditions holds for the anchor, as tagged.
Matches(el) == \E n \in DOMAIN AnchorPool : AnchorPool[n].el = el /\ AnchorPool[n].matches

\* The positions of the anchors that carry an href attribute.
WithHref(doc) == {i \in DOMAIN doc.anchors : doc.anchors[i].href # Null}

\* The anchor at position i is in the list, under its own trimmed text or
\* under that text with the indicator behind it.
Recorded(doc, found, i) ==
    \E k \in DOMAIN found :
        /\ found[k].href = doc.anchors[i].href[1]
        /\ found[k].text \in {trim(doc.anchors[i].text),
                              trim(doc.anchors[i].text \o IndicatorText)}

\* The risk phrases of the background list each page text holds, in the
\* order of the list.
ExpectedTerms(t) ==
    IF t = AllRiskyText
    THEN << "sell your data", "third parties", "advertising partners", "indefinitely",
            "without notice", "at our discretion", "no liability", "as is", "no warranty" >>
    ELSE IF t = PolicyText THEN << "indefinitely", "without notice" >>
    ELSE << >>

\* The (href, trimmed text) pairs of the matching links, in traversal order,
\* each pair once.
RECURSIVE DedupMatches(_, _)
DedupMatches(doc, n) ==
    IF n = 0 THEN << >>
    ELSE IF /\ n \in WithHref(doc)
            /\ Matches(doc.anchors[n])
            /\ ~\E k \in DOMAIN DedupMatches(doc, n - 1) :
                    /\ DedupMatches(doc, n - 1)[k].href = doc.anchors[n].href[1]
                    /\ DedupMatches(doc, n - 1)[k].text = trim(doc.anchors[n].text)
    THEN Append(DedupMatches(doc, n - 1),
                [text |-> trim(doc.anchors[n].text), href |-> doc.anchors[n].href[1]])
    ELSE DedupMatches(doc, n - 1)

\* C12: whatever the page holds, the report has at most 5 policy links and
\* at most 5 risky terms.
C12_AtMostFive ==
    Scanned =>
        /\ Len(policyData.foundPolicyLinks) <= 5
        /\ Len(policyData.foundRiskyTerms) <= 5

\* A page with six matching links and nine risk phrases, reported as five
\* and five.
C12_Witness ==
    /\ Scanned
    /\ Cardinality({i \in WithHref(page) : Matches(page.anchors[i])}) = 6
    /\ page.innerText = AllRiskyText
    /\ Len(policyData.foundPolicyLinks) = 5
    /\ Len(policyData.foundRiskyTerms) = 5

\* C13: truncation keeps a prefix in scan order: after the scan of a fresh
\* page foundPolicyLinks is the first min(5, n) deduplicated matching links
\* in traversal order and foundRiskyTerms the first min(5, m) matched risk
\* phrases in keyword order.
C13_PrefixInScanOrder ==
    [][ (pc = "page.loaded" /\ pc' = "page.scanned") =>
            /\ policyData'.foundRiskyTerms = Take(ExpectedTerms(page.innerText), 5)
            /\ policyData'.foundPolicyLinks = Take(DedupMatches(page, Len(page.anchors)), 5)
      ]_vars

\* C14: after the scan of a fresh page the list has no more entries than
\* the page has links, no (href, text) pair twice, and one entry per
\* matching link, holding the link's trimmed text and its URL.
C14_OneEntryPerLink ==
    [][ (pc = "page.loaded" /\ pc' = "page.scanned") =>
            LET found == policyData'.foundPolicyLinks
            IN /\ Len(found) <= Cardinality(WithHref(page))
               /\ \A j, k \in DOMAIN found : j # k => found[j] # found[k]
               /\ \A k \in DOMAIN found :
                      \E i \in WithHref(page) :
                          /\ found[k].href = page.anchors[i].href[1]
                          /\ found[k].text = trim(page.anchors[i].text)
               /\ \A i \in WithHref(page) :
                      Cardinality({k \in DOMAIN found :
                                      found[k].href = page.anchors[i].href[1]}) <= 1
      ]_vars

\* C15: a link is recorded only if one of the nine conditions holds for
\* some phrase, and, as long as the list was not cut at five, every link for
\* which one holds is recorded.
C15_RecordedIffMatches ==
    Scanned =>
        /\ \A k \in DOMAIN policyData.foundPolicyLinks :
              \E i \in WithHref(page) :
                  /\ Matches(page.anchors[i])
                  /\ Recorded(page, <<policyData.foundPolicyLinks[k]>>, i)
        /\ Len(policyData.foundPolicyLinks) < 5 =>
              \A i \in WithHref(page) :
                  Matches(page.anchors[i]) <=> Recorded(page, policyData.foundPolicyLinks, i)

\* A page whose links match through the aria-label only and through the
\* title only, next to a link that matches nothing.
C15_Witness ==
    /\ Scanned
    /\ Len(policyData.foundPolicyLinks) < 5
    /\ \E i, j, n \in WithHref(page) :
          /\ page.anchors[i].ariaLabel = Some("Cookie Settings")
          /\ page.anchors[j].title = Some("Legal Notice")
          /\ page.anchors[n].text = "Contact us"
          /\ Recorded(page, policyData.foundPolicyLinks, i)
          /\ Recorded(page, policyData.foundPolicyLinks, j)
          /\ ~Recorded(page, policyData.foundPolicyLinks, n)

\* C19: an anchor without href, aria-label or title never aborts the scan:
\* the report is returned, an anchor without href is left out, and the
\* links around it are recorded as usual.
C19_MalformedLinkIsHarmless ==
    Scanned =>
        /\ policyData.completed
        /\ policyData.hostname = page.hostname
        /\ \A k \in DOMAIN policyData.foundPolicyLinks :
              \E i \in WithHref(page) :
                  policyData.foundPolicyLinks[k].href = page.anchors[i].href[1]
        /\ Len(policyData.foundPolicyLinks) < 5 =>
              \A i \in WithHref(page) :
                  Matches(page.anchors[i]) => Recorded(page, policyData.foundPolicyLinks, i)

\* An anchor without href and an anchor without aria-label and title come
\* first; the link after them is recorded.
C19_Witness ==
    /\ Scanned
    /\ policyData.completed
    /\ \E i, j, n \in DOMAIN page.anchors :
          /\ i < n /\ j < n
          /\ page.anchors[i].href = Null
          /\ page.anchors[j].href # Null
          /\ page.anchors[j].ariaLabel = Null /\ page.anchors[j].title = Null
          /\ page.anchors[n].title = Some("Legal Notice")
          /\ Recorded(page, policyData.foundPolicyLinks, n)

\* C17: the background page scan, the popup's page scan and the manual
\* analyzer apply one risk phrase set: on the same text the background sets
\* hasRiskyKeywords exactly when analyzeRiskFactors finds a risk phrase, and
\* the popup's page scan agrees with both.
C17_OneRiskHeuristic ==
    /\ (policyData.completed /\ riskAnalysis # NoAnalysis)
          => (policyData.hasRiskyKeywords <=> Len(riskAnalysis.foundRisks) > 0)
    /\ (policyData.completed /\ realTime.completed)
          => (realTime.hasRiskyKeywords <=> policyData.hasRiskyKeywords)
    /\ (realTime.completed /\ riskAnalysis # NoAnalysis)
          => (realTime.hasRiskyKeywords <=> Len(riskAnalysis.foundRisks) > 0)

(***************************************************************************)
(* Which page reports the background script surfaces                       *)
(***************************************************************************)
Flagged(data) == data.hasPolicyContent \/ data.hasRiskyKeywords

\* The invocations of analyzePageForPolicies that received a page report.
Reported == {f \in finished : f.policyData.completed}

\* What an invocation in flight or ended has done on behalf of its report.
SurfacedAsDecided(inv) ==
    /\ ("stored" \in inv.effects) <=> (inv.policyData.completed /\ Flagged(inv.policyData))
    /\ ~(inv.policyData.completed /\ Flagged(inv.policyData)) => inv.effects = {}
    /\ "notified" \in inv.effects => inv.policyData.hasRiskyKeywords

\* Every write of an analysis, every badge and every notification stems
\* from an invocation holding a flagged report.
SurfacedOnlyWhenFlagged ==
    /\ [][/\ \A t \in TabIds :
               (storage'[analysisKey(t)] # storage[analysisKey(t)]
                   /\ storage'[analysisKey(t)] # Null) =>
                 \E task \in tasks :
                    /\ task.tabId = t
                    /\ task.policyData.completed
                    /\ Flagged(task.policyData)
                    /\ storage'[analysisKey(t)] =
                          Some([url |-> task.url, hostname |-> hostnameOf(task.url),
                                policyData |-> task.policyData])
          /\ \A t \in TabIds :
               (badge'[t] # badge[t] /\ badge'[t] # NoBadge) =>
                 \E task \in tasks :
                    /\ task.tabId = t
                    /\ "stored" \in task.effects
                    /\ Flagged(task.policyData)
          /\ notifications' # notifications =>
                 \E task \in tasks : "stored" \in task.effects /\ Flagged(task.policyData)
       ]_vars

\* C16 as stated: a page report is written to storage under
\* analysis_<tabId> and followed by the badge exactly when hasPolicyContent
\* or hasRiskyKeywords is true (the badge call is rejected only for a tab
\* closed meanwhile); a report with both false writes nothing, and sets no
\* badge and no notification.
C16_SurfacedIffFlagged ==
    /\ [](/\ \A f \in finished : SurfacedAsDecided(f)
          /\ \A f \in Reported :
                Flagged(f.policyData) =>
                    \/ {"badgeText", "badgeColor"} \subseteq f.effects
                    \/ "noTab" \in f.effects)
    /\ SurfacedOnlyWhenFlagged

\* What an invocation has done on behalf of its report, the write of the
\* entry having resolved, rejected or not been made.
SurfacedAsWritten(inv) ==
    /\ (inv.write # "none") <=> (inv.policyData.completed /\ Flagged(inv.policyData))
    /\ ("stored" \in inv.effects) <=> (inv.write = "resolved")
    /\ inv.write # "resolved" => inv.effects = {}
    /\ "notified" \in inv.effects => inv.policyData.hasRiskyKeywords

\* C16, amended: the write of the entry is attempted exactly when
\* hasPolicyContent or hasRiskyKeywords is true, and the badge follows
\* exactly when the write succeeds (the badge call is rejected only for a
\* tab closed meanwhile); a flagged report whose write is rejected, like a
\* report with both flags false, leaves nothing in storage and sets no badge
\* and no notification.
C16_SurfacedIffFlaggedAndStored ==
    /\ [](/\ \A f \in finished : SurfacedAsWritten(f)
          /\ \A task \in tasks : task.write = "rejected" => task.effects = {}
          /\ \A f \in finished :
                f.write = "resolved" =>
                    \/ {"badgeText", "badgeColor"} \subseteq f.effects
                    \/ "noTab" \in f.effects)
    /\ SurfacedOnlyWhenFlagged

\* One tab's page with policy phrases was stored and badged; another page
\* whose only finding is a policy link was reported and left no trace.
C16_Witness ==
    /\ \E f \in Reported :
          /\ f.policyData.hasPolicyContent
          /\ ~f.policyData.hasRiskyKeywords
          /\ f.effects = {"stored", "badgeText", "badgeColor"}
          /\ storage[analysisKey(f.tabId)] # Null
          /\ badge[f.tabId] = DocumentBadge
    /\ \E f \in Reported :
          /\ ~Flagged(f.policyData)
          /\ f.policyData.foundPolicyLinks # << >>
          /\ f.effects = {}
          /\ storage[analysisKey(f.tabId)] = Null
          /\ badge[f.tabId] = NoBadge

(***************************************************************************)
(* The phrase lists of analyzeRiskFactors                                  *)
(***************************************************************************)
\* The phrases of a keyword list that a text holds, in the order of the list.
InListOrder(keywords, held) == SelectSeq(keywords, LAMBDA k : k \in held)

\* C22: foundRisks and foundPositives list every matched phrase exactly
\* once, in keyword-list order, with no cap at five; riskScore is
\* foundRisks.length minus 0.5 times foundPositives.length.
C22_EveryMatchListedOnce ==
    pc = "risk.done" =>
        \A P \in Samples : text = RiskText(P) =>
            /\ riskAnalysis.foundRisks = InListOrder(riskKeywords, ExpectedRisks(P))
            /\ riskAnalysis.foundPositives = InListOrder(positiveKeywords, ExpectedPositives(P))
            /\ riskAnalysis.riskScore =
                  ScoreUnit * Len(riskAnalysis.foundRisks)
                  - (ScoreUnit \div 2) * Len(riskAnalysis.foundPositives)

\* More risk phrases than a page report would keep, and a positive one.
C22_Witness ==
    /\ pc = "risk.done"
    /\ Len(riskAnalysis.foundRisks) > MaxReported
    /\ riskAnalysis.foundPositives # << >>

(***************************************************************************)
(* The classification of a manual text, whatever the providers did         *)
(***************************************************************************)
\* What each analyzable text holds, read off the text by hand.
TrimmedRisky == trim(LongRisky)

ManualFindings(t) ==
    IF t = TrimmedRisky
    THEN [level |-> "risky", description |-> DescMultiple, riskScore |-> 3 * ScoreUnit,
          foundRisks |-> <<"sell your data", "third parties", "without notice">>,
          foundPositives |-> << >>]
    ELSE IF t = LongMixed
    THEN [level |-> "safe", description |-> DescNone, riskScore |-> ScoreUnit \div 2,
          foundRisks |-> <<"third parties">>, foundPositives |-> <<"encrypted">>]
    ELSE [level |-> "safe", description |-> DescNone, riskScore |-> 0,
          foundRisks |-> << >>, foundPositives |-> << >>]

\* analyzePolicyText displays its result in this step.
Displaying == pc # "finally" /\ pc' = "finally"

\* C25: for a fixed text the level, description, riskScore, foundRisks and
\* foundPositives the analysis shows are the same for every combination of
\* provider outcomes, and the catch-all path (performFallbackAnalysis) yields
\* the same five values.
C25_ClassificationIgnoresProviders ==
    /\ [](Displayed =>
            /\ keyPoints = [foundRisks |-> ManualFindings(text).foundRisks,
                            foundPositives |-> ManualFindings(text).foundPositives]
            /\ riskAnalysis = ManualFindings(text)
            /\ riskIndicator = [level |-> ManualFindings(text).level,
                                description |-> ManualFindings(text).description]
            /\ [f \in DOMAIN ManualFindings(text) |-> fallbackAnalysisOf[text][f]]
                  = ManualFindings(text))
    /\ [][Displaying =>
            riskIndicator' = [level |-> ManualFindings(text').level,
                              description |-> ManualFindings(text').description]]_vars

\* The mixed text was classified after all three providers had answered.
C25_Witness ==
    /\ Displayed
    /\ text = LongMixed
    /\ CondenseOutput = S1
    /\ ReframeOutput = S2
    /\ PolishOutput = S3
    /\ riskAnalysis.riskScore = ScoreUnit \div 2

(***************************************************************************)
(* One manual analysis at a time                                           *)
(***************************************************************************)
InFlight == pc # "idle"

\* A step of the manual analysis: not one of init / analyzeCurrentPage.
ManualStep == UNCHANGED autoVars

\* C27: the Analyze button is disabled from the start of a validated
\* analysis to its end and is then enabled again with its original label,
\* also when analyzePolicyText rejected and the handler's catch showed the
\* error; a click starts an analysis only when none is in flight, and manual
\* analyses write the summary and the risk indicator only as the one in
\* flight.
C27_OneAnalysisInFlight ==
    /\ [](InFlight => analyzeButton = [disabled |-> TRUE, textContent |-> "Analyzing..."])
    /\ [](~InFlight => analyzeButton = [disabled |-> FALSE, textContent |-> "Analyze Policy"])
    /\ [][/\ runs' # runs => (~InFlight /\ InFlight')
          /\ (summary' # summary \/ keyPoints' # keyPoints
               \/ (riskIndicator' # riskIndicator /\ ManualStep))
                => (analyzeButton.disabled \/ analyzeButton'.disabled)
          /\ (pc = "catch" /\ pc' # "catch")
                => /\ ~InFlight'
                   /\ FallbackDescriptionShown'
                   /\ analyzeButton' = [disabled |-> FALSE, textContent |-> "Analyze Policy"]
       ]_vars

\* The second analysis of a session has ended as the first did: its display
\* threw, the handler's catch showed the error over the fallback summary, and
\* the button is enabled again.
C27_Witness ==
    /\ ~InFlight
    /\ analyzeButton = [disabled |-> FALSE, textContent |-> "Analyze Policy"]
    /\ runs = MaxClicks
    /\ resultsDisplay = NoElement
    /\ FallbackDescriptionShown
    /\ summary = fallbackAnalysisOf[inputOf[LongRisky]].summary
    /\ policyText = LongSafe
    /\ ai.apis = Providers

(***************************************************************************)
(* The auto-open preference                                                *)
(***************************************************************************)
\* The invocations that end in this step.
Ending == finished' \ finished

\* The invocations that take their next step in this transition.
Stepping(at) == {task \in tasks : task.pc = at /\ task \notin tasks'}

\* The end, in this step, of the invocation task.
EndingOf(task) == {f \in Ending : <<f.tabId, f.load>> = <<task.tabId, task.load>>}

\* What a stored preference reads as: the value the last successful
\* setAutoOpen stored, and true while none has been stored.
StoredPreference(value) == IF value = Null THEN TRUE ELSE value[1]

\* C21: getAutoOpenSetting returns false only when its read resolves and
\* found autoOpenEnabled stored as exactly false; it returns true when the
\* key was never set and when the read rejects; after a successful
\* setAutoOpen with value v the stored value is v, which is what the next
\* getAutoOpenSetting finds, and returns when its read resolves.
C21_PreferenceDefaultsToTrue ==
    /\ [](storage["autoOpenEnabled"] \in {Null, Some(TRUE), Some(FALSE)})
    /\ [][/\ \A task \in Stepping("storage.get") :
                /\ EndingOf(task) # {}
                /\ \A f \in EndingOf(task) :
                      /\ f.read # "none"
                      /\ f.autoOpen = Some(IF f.read = "rejected" THEN TRUE
                                           ELSE StoredPreference(task.found))
                      /\ (f.autoOpen = Some(FALSE)) <=>
                            (f.read = "resolved" /\ task.found = Some(FALSE))
          /\ \A task \in tasks' \ tasks :
                task.pc = "storage.get" => task.found = storage'["autoOpenEnabled"]
          /\ storage'["autoOpenEnabled"] # storage["autoOpenEnabled"] =>
                storage'["autoOpenEnabled"] # Null
       ]_vars

\* One alert read the preference before it was ever set, and a later one
\* read it after false had been stored.
C21_Witness ==
    /\ \E f \in finished : f.read = "resolved" /\ f.autoOpen = Some(TRUE) /\ f.load = 1
    /\ \E f \in finished : f.read = "resolved" /\ f.autoOpen = Some(FALSE)
    /\ storage["autoOpenEnabled"] = Some(FALSE)

(***************************************************************************)
(* Which alert a report raises                                             *)
(***************************************************************************)
\* The badge called for by the flags of a report that is being alerted.
ExpectedBadge(data) ==
    IF data.hasRiskyKeywords THEN [text |-> "warning", color |-> "#f44336"]
    ELSE [text |-> "page", color |-> "#ff9800"]

\* The badge of an open tab follows the flags of the report being alerted,
\* which is one whose entry was stored:
\* warning whenever hasRiskyKeywords, the document badge only for
\* hasPolicyContent without hasRiskyKeywords.
BadgeFollowsFlags ==
    /\ \A task \in Stepping("storage.set") :
          (task.write = "resolved" /\ tabs[task.tabId].open) =>
             /\ badge'[task.tabId].text = ExpectedBadge(task.policyData).text
             /\ ~task.policyData.hasRiskyKeywords => task.policyData.hasPolicyContent
    /\ \A task \in Stepping("setBadgeText") :
          tabs[task.tabId].open =>
             badge'[task.tabId].color = ExpectedBadge(task.policyData).color
    /\ \A t \in TabIds :
          (badge'[t] # badge[t] /\ badge'[t] # NoBadge) =>
             \E task \in Stepping("storage.set") \cup Stepping("setBadgeText") :
                task.tabId = t

\* C29 as stated: the badge follows the flags, and a notification is created
\* only for a risky report, and never while the preference is stored as false.
C29_NeverNotifiedWhenStoredFalse ==
    [][/\ BadgeFollowsFlags
       /\ \A f \in Ending :
             "notified" \in f.effects =>
                /\ f.policyData.hasRiskyKeywords
                /\ storage["autoOpenEnabled"] # Some(FALSE)
      ]_vars

\* C29, amended: the badge follows the flags, and a notification is created
\* only for a risky report and only when getAutoOpenSetting returned true:
\* never for a policy-only page, and never when the preference was read as
\* false. A preference stored as false counts as enabled when the read
\* rejects, and when false was stored only after the read had been called.
C29_AlertFollowsFlags ==
    [][/\ BadgeFollowsFlags
       /\ \A f \in Ending :
             "notified" \in f.effects =>
                /\ f.policyData.hasRiskyKeywords
                /\ f.autoOpen = Some(TRUE)
                /\ \E task \in Stepping("storage.get") : f \in EndingOf(task)
       /\ \A task \in Stepping("storage.get") :
             \A f \in EndingOf(task) :
                /\ "notified" \in f.effects =>
                      (task.found # Some(FALSE) \/ f.read = "rejected")
                /\ (f.read = "resolved" /\ task.found = Some(FALSE))
                      => "notified" \notin f.effects
                /\ ((f.read = "rejected" \/ task.found # Some(FALSE))
                      /\ f.policyData.hasRiskyKeywords)
                      => "notified" \in f.effects
      ]_vars

\* A page with policy and risk phrases got the warning badge, and was
\* notified of although false is stored, because the read rejected.
C29_Witness ==
    \E f \in finished :
       /\ f.policyData.hasRiskyKeywords
       /\ f.policyData.hasPolicyContent
       /\ badge[f.tabId] = WarningBadge
       /\ "notified" \in f.effects
       /\ f.read = "rejected"
       /\ storage["autoOpenEnabled"] = Some(FALSE)
       /\ notifications # {}

(***************************************************************************)
(* Which tab updates start a page analysis                                 *)
(***************************************************************************)
Analyzable(url) ==
    /\ url # ""
    /\ ~startsWith(url, "chrome://")
    /\ ~startsWith(url, "chrome-extension://")

\* The tabs about which onUpdated fires in this step.
Updated == {t \in TabIds : tabs'[t].open /\ <<tabs'[t].status, tabs'[t].loads>>
                                              # <<tabs[t].status, tabs[t].loads>>}

\* C30: an analysis is started only by a tab update with status 'complete'
\* for a tab whose URL is present and starts with neither chrome:// nor
\* chrome-extension://; every other update starts no timer and no analysis,
\* injects no script, writes nothing to storage and sets no badge and no
\* notification; scripts are injected only by analyses so started.
C30_OnlyCompletePagesAnalyzed ==
    /\ [](/\ \A timer \in timers : Analyzable(timer.url)
          /\ \A task \in tasks : Analyzable(task.url)
          /\ \A f \in finished : Analyzable(f.url))
    /\ [][/\ \A timer \in timers' \ timers :
                /\ timer.tabId \in Updated
                /\ tabs'[timer.tabId].status = "complete"
                /\ timer.url = tabs'[timer.tabId].url
          /\ \A t \in Updated :
                (tabs'[t].status # "complete" \/ ~Analyzable(tabs'[t].url)) =>
                    /\ UNCHANGED <<timers, tasks, storage, badge, notifications>>
                    /\ tabs'[t].content.marked = {}
          /\ \A t \in Updated :
                (tabs'[t].status = "complete" /\ Analyzable(tabs'[t].url)) =>
                    \E timer \in timers' \ timers : timer.tabId = t
          /\ \A task \in tasks' \ tasks :
                task.pc = "executeScript" =>
                    \E timer \in timers \ timers' :
                       <<timer.tabId, timer.url, timer.load>>
                          = <<task.tabId, task.url, task.load>>
          /\ \A t \in TabIds :
                (t \notin Updated /\ tabs'[t].open /\ tabs'[t].content # tabs[t].content) =>
                    \E task \in Stepping("executeScript") : task.tabId = t
       ]_vars

\* An extension page and a browser page have finished loading and nothing
\* was started for either.
C30_Witness ==
    /\ \E t \in TabIds :
          /\ tabs[t].status = "complete"
          /\ startsWith(tabs[t].url, "chrome-extension://")
    /\ \E t \in TabIds :
          /\ tabs[t].status = "complete"
          /\ startsWith(tabs[t].url, "chrome://")
    /\ timers = {}
    /\ tasks = {}
    /\ finished = {}
    /\ storage = [k \in StorageKeys |-> Null]

(***************************************************************************)
(* What a closed tab leaves behind                                         *)
(***************************************************************************)
\* The tab was closed, and no timer or analysis started for it is pending.
Settled_(t) ==
    /\ ~tabs[t].open
    /\ tabs[t].loads > 0
    /\ \A timer \in timers : timer.tabId # t
    /\ \A task \in tasks : task.tabId # t

\* C24: once a tab has been removed and every timer and handler started for
\* it has finished, storage holds no analysis_<tabId> entry.
C24_ClosedTabLeavesNothing ==
    \A t \in TabIds : Settled_(t) => storage[analysisKey(t)] = Null

(***************************************************************************)
(* What the popup is told about the tab it is opened on                    *)
(***************************************************************************)
\* The report detectPolicyContent gives for the page served at url.
ReportAt(url) ==
    {detectPolicyContent(site).report : site \in {site \in Sites : site.url = url}}

\* C23: whenever getPageAnalysis returns an entry for a tab, the entry was
\* computed from the page the tab shows when the response is sent: its url
\* is the tab's URL and its report is that page's report.
C23_EntryIsOfCurrentPage ==
    [][\A request \in returned' \ returned :
          (/\ request.responses # << >>
           /\ request.responses[1] # Null
           /\ tabs[request.tabId].open) =>
             /\ request.responses[1][1].url = tabs[request.tabId].url
             /\ request.responses[1][1].policyData \in ReportAt(tabs[request.tabId].url)
      ]_vars

(***************************************************************************)
(* The popup's page analysis: where the indicator ends, and how often the  *)
(* in-page scan runs                                                       *)
(***************************************************************************)
Injections == {i \in 1..Len(pageCalls) : pageCalls[i].api = "executeScript"}

PageAnalysisEnded == pagePc = "done" /\ pageCalls # << >> /\ pageCalls[1].api = "tabs.query"

\* C26: every run of analyzeCurrentPage that sets the indicator to
\* 'analyzing' ends with the indicator at 'safe' or 'risky', on every path,
\* when each awaited browser call eventually settles.
C26_AnalyzingIsTransient ==
    /\ [](PageAnalysisEnded => riskIndicator.level \in {"safe", "risky"})
    /\ (riskIndicator.level = "analyzing")
          ~> (PageAnalysisEnded /\ riskIndicator.level \in {"safe", "risky"})

\* A run that ended in the catch of analyzeCurrentPage after both in-page
\* scans failed.
C26_Witness ==
    /\ PageAnalysisEnded
    /\ Cardinality(Injections) = 2
    /\ riskIndicator = CouldNotAnalyze

\* C28 (as stated): a stored entry is displayed and no script is injected;
\* after a null answer or a failed message performRealTimeAnalysis runs
\* exactly once.
C28_RealTimeRunsOnce ==
    (PageAnalysisEnded /\ Len(pageCalls) >= 2) =>
        IF pageCalls[2].value = "entry"
        THEN /\ Injections = {}
             /\ riskIndicator = autoDetectedIndicator(storage[analysisKey(ActiveTab)][1])
        ELSE Cardinality(Injections) = 1


(***************************************************************************)
(* The risk flag and the risk terms of a page report                       *)
(***************************************************************************)
Listed(terms) == {terms[i] : i \in DOMAIN terms}

\* C31: in every page report hasRiskyKeywords is true exactly when
\* foundRiskyTerms is not empty, and foundRiskyTerms holds only phrases of
\* the risky keyword list, each at most once.
C31_RiskFlagMatchesTerms ==
    policyData.completed =>
        /\ policyData.hasRiskyKeywords <=> policyData.foundRiskyTerms # << >>
        /\ Listed(policyData.foundRiskyTerms) \subseteq Listed(riskyKeywords)
        /\ Cardinality(Listed(policyData.foundRiskyTerms)) = Len(policyData.foundRiskyTerms)

\* A report of a page holding more risky phrases than the report keeps.
C31_Witness ==
    /\ pc = "page.scanned"
    /\ policyData.completed
    /\ policyData.hasRiskyKeywords
    /\ Len(policyData.foundRiskyTerms) = MaxReported
    /\ Cardinality({k \in DOMAIN riskyKeywords :
                       includes(toLowerCase(page.innerText), riskyKeywords[k])}) > MaxReported


(***************************************************************************)
(* The responses to getPageAnalysis requests                               *)
(***************************************************************************)
Answered(request) ==
    /\ request.pc = "done"
    /\ Len(request.responses) = 1
    /\ request.responses[1] \in {request.stored, Null}

\* C32: every getPageAnalysis request receives exactly one response, the
\* stored analysis_<tabId> entry when one exists and null when none exists
\* or the storage read fails; no request is left waiting and none is
\* answered twice.
C32_OneResponsePerRequest ==
    /\ [](\A request \in returned :
             /\ Len(request.responses) <= 1
             /\ request.pc = "storage.get" => request.responses = << >>
             /\ request.pc = "done" => Answered(request))
    /\ [][\A request \in returned :
             request.responses # << >> => request \in returned']_vars
    /\ \A id \in RequestIds :
          (\E request \in returned : request.id = id)
             ~> (\E request \in returned : request.id = id /\ Answered(request))

\* Two requests for the same tab, one answered with the stored entry and
\* one, whose read failed, with null.
C32_Witness ==
    \E first \in returned, second \in returned :
       /\ first.tabId = second.tabId
       /\ first.stored # Null
       /\ second.stored # Null
       /\ Answered(first)
       /\ Answered(second)
       /\ first.responses = <<first.stored>>
       /\ second.responses = <<Null>>

====
